---- MODULE Spec2Model ----
(***************************************************************************)
(* Real-time fan-out subsystem of the chat backend: the Socket.IO          *)
(* connection gatekeeper, the room topology and the cross-instance relay   *)
(* (socket/socketHandler.js), together with the token blacklist written by *)
(* logout (utils/redis.js, controllers/auth.controller.js).                *)
(*                                                                         *)
(* Strings that the code concatenates are sequences of tokens, so that     *)
(* `${prefix}${roomId}` is prefix \o roomId and the empty string is <<>>.  *)
(***************************************************************************)
EXTENDS Integers, Sequences, FiniteSets, TLC

\* Bounds on the number of emitting events (each takes one message id) in
\* the specifications below.
MaxRoomMsgs == 3
MaxCastMsgs == 2
MaxBusMsgs == 2
MaxGateMsgs == 2
MaxKeyMsgs == 2
MaxOutageMsgs == 2
MaxNotifyMsgs == 3
MaxSignalMsgs == 3
MaxPresenceMsgs == 2
MaxActorMsgs == 3
MaxWeeks == 2

\* Bounds on the HTTP requests received and on the time that passes in the
\* specifications of the cache.
MaxRequests == 3
MaxTicks == 2

\* Bound on the HTTP requests received where several pages are cached.
MaxPageRequests == 4

\* Bounds on the login requests received and on the time that passes in the
\* specifications of the rate limiter.
MaxLoginRequests == 6
MaxRateTicks == 4

\* Client connections, each with the server instance its transport reaches.
Sessions == {"s1", "s2"}
Instances == {"i1", "i2"}
Other(i) == IF i = "i1" THEN "i2" ELSE "i1"

\* Users stored in the database, and the ids a client can put in a payload.
UserIds == {<<"a">>, <<"b">>}
RoomIds == {<<"a">>}
Empty == <<>>
PayloadIds == RoomIds \cup {Empty}
\* The users with a ServerMember document for the server of the rooms.
ServerMembers == {<<"a">>}
DocTypes == {"channel", "server"}      \* the types the handlers document
PayloadTypes == DocTypes \cup {"voice", "user"}

\* Handshake credentials: none, a malformed one, an expired one, one whose
\* payload carries no userId, one for a deleted user, and one per user.
NoToken == "none"
Null == <<"null">>
Tokens == {NoToken, "garbage", "expired", "nouid", "tok_z", "tok_a", "tok_b"}

VARIABLES
    ioReady,      \* per instance: initSocket has created `io`
    redisUp,      \* the pub/sub backbone is reachable
    status,       \* per session: "new", "open", "closed", "rejected"
    inst,         \* per session: the instance that accepted its connection
    token,        \* per session: the credential of its handshake
    userId,       \* per session: socket.userId
    rooms,        \* per session: the rooms its socket is in (adapter sets)
    inbox,        \* per session: the events the client has received
    relay,        \* per instance: broadcasts published by the other one
    blacklist,    \* tokens stored under blacklist:{token}
    users,        \* per user: the status persisted in the users collection
    writes,       \* the UserModel updates issued by socket handlers, in flight
    nextId,       \* id of the next emitted message
    cap,          \* the bound on message ids of the specification
    hist,         \* per session: its join/leave/disconnect events so far
    sent,         \* per message id: the room broadcast made under it
    gone,         \* per message id: sessions that left its room since
    lost,         \* message ids whose cross-instance copy was not relayed
    content,      \* per message: the version of its content in the database
    channels,     \* the channels of server a in the database, by name
    friends,      \* per user: the friends array of the user's document
    cache,        \* per cache key: the entry stored under it, or NoEntry
    pc,           \* per HTTP request: the await its handler is at
    req,          \* per HTTP request: its parameters and local variables
    now,          \* the time, in ticks
    stamp,        \* the number of cache stores and invalidations started
    cleared,      \* per cache key: the stamp at which the latest completed
                  \* invalidation of the key started
    started,      \* the number of HTTP requests received
    quota,        \* the number of HTTP requests the specification lets in
    counter,      \* the rate counter login_attempts:{ip} in the store
    tally         \* the recordAttempt and clearAttempts calls completed

\* The cache, the database and the HTTP requests in flight.
svars == <<content, channels, friends, cache, pc, req, now, stamp, cleared, started, quota,
          counter, tally>>

vars == <<ioReady, redisUp, status, inst, token, userId, rooms, inbox, relay,
          blacklist, users, writes, nextId, cap, hist, sent, gone, lost,
          content, channels, friends, cache, pc, req, now, stamp, cleared, started, quota,
          counter, tally>>

----
\* verifyToken without the expiry check (jwt.decode in place of jwt.verify).
VerifyTokenIgnoreExpiry(t) ==
    CASE t = "tok_a" -> [valid |-> TRUE, userId |-> <<"a">>]
      [] t = "tok_b" -> [valid |-> TRUE, userId |-> <<"b">>]
      [] t = "tok_z" -> [valid |-> TRUE, userId |-> <<"z">>]
      [] t = "nouid" -> [valid |-> TRUE, userId |-> Empty]
      [] t = "expired" -> [valid |-> TRUE, userId |-> <<"a">>]
      [] OTHER -> [valid |-> FALSE, userId |-> Empty]

\* utils/jwt.js verifyToken: the decoded payload, or null (valid = FALSE) on
\* any verification failure.
VerifyToken(t) ==
    CASE t = "tok_a" -> [valid |-> TRUE, userId |-> <<"a">>]
      [] t = "tok_b" -> [valid |-> TRUE, userId |-> <<"b">>]
      [] t = "tok_z" -> [valid |-> TRUE, userId |-> <<"z">>]
      [] t = "nouid" -> [valid |-> TRUE, userId |-> Empty]
      [] OTHER -> [valid |-> FALSE, userId |-> Empty]

\* UserModel.findById: the user document, or null.
FindById(id) == IF id \in UserIds THEN id ELSE Null

\* The io.use middleware: the userId attached to the socket, or Null when
\* next() is called with an error.
Authenticate(t) ==
    IF t = NoToken THEN Null
    ELSE LET decoded == VerifyToken(t) IN
         IF ~decoded.valid THEN Null       \* decoded.userId throws, caught
         ELSE FindById(decoded.userId)

\* (variant: a type the handlers do not know leaves the room id as it is)
RoomKeyVerbatim(type, roomId) ==
    IF type = "channel" THEN <<"channel:">> \o roomId
    ELSE IF type = "server" THEN <<"server:">> \o roomId ELSE roomId

\* (variant: the payload's type "user" names a personal room)
RoomKeyWithUser(type, roomId) ==
    (IF type = "channel" THEN <<"channel:">>
     ELSE IF type = "user" THEN <<"user:">> ELSE <<"server:">>) \o roomId

\* The room a joinRoom / leaveRoom payload names.
RoomKey(type, roomId) ==
    (IF type = "channel" THEN <<"channel:">> ELSE <<"server:">>) \o roomId

PersonalRoom(uid) == <<"user:">> \o uid
ChannelRoom(cid) == <<"channel:">> \o cid
VoiceRoom(cid) == <<"voice:">> \o cid

\* socket.join / socket.leave on the adapter's room sets, and the cleanup
\* Socket.IO performs when a socket closes.
\* (variants: a join that toggles, a leave that forgets to remove, a
\* cleanup that keeps the personal room)
SocketJoinToggle(rs, r) == IF r \in rs THEN rs \ {r} ELSE rs \cup {r}
SocketJoin(rs, r) == rs \cup {r}
SocketLeaveNoop(rs, r) == rs
SocketLeave(rs, r) == rs \ {r}
LeaveAllButPersonal(rs) == {r \in rs : Head(r) = "user:"}
LeaveAll(rs) == {}

\* One entry of a session's history: the inbound event (or "connect" /
\* "disconnect"), what it does to membership, the room it derives, the
\* payload's type, and the message id its notification took (0: none).
Event(ev, op, room, type, at) == [ev |-> ev, op |-> op, room |-> room, type |-> type, at |-> at]

Message(ev, room, from) == [id |-> nextId, ev |-> ev, room |-> room, from |-> from]

\* (variant: the sender is not excluded)
LocalTargetsNoExcept(rm, i, room, except) ==
    {s \in Sessions : inst[s] = i /\ room \in rm[s]}

\* The sockets of instance i that a broadcast to `room` reaches.
LocalTargets(rm, i, room, except) ==
    {s \in Sessions : inst[s] = i /\ room \in rm[s] /\ s \notin except}

\* (variant: io.emit in place of io.to(room).emit)
DeliverLocalAll(box, rm, i, room, m, except) ==
    [s \in Sessions |->
        IF inst[s] = i /\ status[s] = "open" /\ s \notin except
        THEN Append(box[s], m) ELSE box[s]]

\* (variant: the newest packet is put in front of the socket's queue)
DeliverLocalInFront(box, rm, i, room, m, except) ==
    [s \in Sessions |->
        IF s \in LocalTargets(rm, i, room, except) THEN <<m>> \o box[s] ELSE box[s]]

\* The adapter's local delivery of one broadcast.
DeliverLocal(box, rm, i, room, m, except) ==
    [s \in Sessions |->
        IF s \in LocalTargets(rm, i, room, except) THEN Append(box[s], m) ELSE box[s]]

\* (variant: the emit is forgotten)
EmitSelfDropped(box, s, m) == box

\* socket.emit: to the socket itself.
EmitSelf(box, s, m) == [box EXCEPT ![s] = Append(@, m)]

\* (variant: no adapter installed, nothing leaves the instance)
PublishRemoteNone(q, i, room, m, except) == q

\* The adapter's publication of one broadcast to the other instance.
PublishRemote(q, i, room, m, except) ==
    IF redisUp /\ ioReady[Other(i)]
    THEN [q EXCEPT ![Other(i)] = Append(@, [msg |-> m, room |-> room, except |-> except])]
    ELSE q

\* io.to(room).emit / socket.to(room).emit on instance i, with the rooms as
\* they are after the handler's own join or leave.
Broadcast(box, rm, i, room, m, except, by) ==
    /\ inbox' = DeliverLocal(box, rm, i, room, m, except)
    /\ relay' = PublishRemote(relay, i, room, m, except)
    /\ lost' = IF redisUp THEN lost ELSE lost \cup {m.id}
    /\ sent' = Append(sent, [ev |-> m.ev, room |-> room, inst |-> i, except |-> except, by |-> by,
                             members |-> {s \in Sessions : room \in rm[s]} \ except])
    /\ nextId' = nextId + 1

\* An emit to the socket alone: nothing is broadcast under this id.
Direct(box, by) ==
    /\ inbox' = box
    /\ sent' = Append(sent, [ev |-> "direct", room |-> Empty, inst |-> inst[by], except |-> {}, by |-> by,
                             members |-> {}])
    /\ nextId' = nextId + 1
    /\ UNCHANGED <<relay, lost>>

\* ---- The cache-aside layer of the message controller ----

\* Messages and channels in the database; m1 is a message of channel a.
MessageIds == {<<"m1">>}
ChannelIds == {<<"a">>, <<"b">>}
ChannelOf(m) == <<"a">>
Pages == {<<"1">>, <<"2">>}
DefaultLimit == <<"50">>
\* Who sends a request: the author of m1, an admin of its server, another
\* member of the server, someone who is not a member.
Actors == {"author", "admin", "member", "outsider"}
MissingMessage == <<"m0">>

\* CACHE_TTL of the message controller, in seconds, and the length of one
\* tick of the model's clock.
CACHE_TTL_MESSAGES == 300
CACHE_TTL_MESSAGE == 600
CACHE_TTL_PINNED == 900
TickSeconds == CACHE_TTL_MESSAGES
Ticks(seconds) == seconds \div TickSeconds

\* getCacheKey
ChannelMessagesKey(channelId, page, limit) ==
    <<"channel:">> \o channelId \o <<":messages:">> \o page \o <<":">> \o limit
MessageKey(messageId) == <<"message:">> \o messageId
PinnedMessagesKey(channelId) == <<"channel:">> \o channelId \o <<":pinned">>

\* getCacheKey of the channel controller, and the server key it also deletes.
ServerId == <<"a">>
ChannelNames == {"general", "new"}
CACHE_TTL_CHANNELS == 1800
ServerChannelsKey(serverId) == <<"server:">> \o serverId \o <<":channels">>
ServerKey(serverId) == <<"server:">> \o serverId
ChannelKey(channelId) == <<"channel:">> \o channelId

\* The pattern `channel:${channelId}:messages:*`, as the text before the star.
ChannelMessagesPattern(channelId) == <<"channel:">> \o channelId \o <<":messages:">>

\* getCacheKey and CACHE_TTL of the user controller; the keys
\* invalidateUserCache(userId) deletes.
CACHE_TTL_USER == 1800
CACHE_TTL_FRIENDS == 900
UserKey(u) == <<"user:">> \o u
UserFriendsKey(u) == <<"user:">> \o u \o <<":friends">>
UserKeysToDelete(u) ==
    {UserKey(u), <<"user:">> \o u \o <<":servers">>, UserFriendsKey(u),
     <<"user:">> \o u \o <<":blocked">>}

\* The fields of a user document that getUserById selects, and those getMe
\* returns (every field of the schema but the password).
PublicProfile == {"username", "name", "avatar", "status", "customStatus", "bio", "lastSeen"}
FullProfile ==
    PublicProfile \cup {"email", "provider", "providerId", "friends", "servers", "isEmailVerified"}

\* utils/redis.js: the key of a blacklisted token and the TTL logout gives
\* it; the JWT_EXPIRE the configuration falls back to, and the lifetime of
\* the tokens in circulation (tok_b was issued under JWT_EXPIRE = 14d).
BLACKLIST_TTL == 604800
JWT_EXPIRE_DEFAULT == 604800
BlacklistKey(t) == <<"blacklist:", t>>
TokenLifetime(t) == IF t = "tok_b" THEN 2 * JWT_EXPIRE_DEFAULT ELSE JWT_EXPIRE_DEFAULT

CacheKeys ==
    {MessageKey(m) : m \in MessageIds}
    \cup {BlacklistKey(t) : t \in {"tok_a", "tok_b"}}
    \cup {UserKey(u) : u \in UserIds} \cup {UserFriendsKey(u) : u \in UserIds}
    \cup {ChannelMessagesKey(c, p, DefaultLimit) : c \in ChannelIds, p \in Pages}
    \cup {PinnedMessagesKey(c) : c \in ChannelIds}
    \cup {ServerChannelsKey(ServerId), ServerKey(ServerId)}

\* An entry holds the value, its expiry time, and when it was stored (time
\* and stamp).
NoEntry == [val |-> -1, exp |-> 0, at |-> 0, born |-> 0]

\* (variant: the pattern matches on the entity alone, every channel's keys)
MatchesAnyChannel(prefix, key) == Head(key) = Head(prefix)

\* A key matches `prefix*`.
Matches(prefix, key) ==
    Len(key) >= Len(prefix) /\ SubSeq(key, 1, Len(prefix)) = prefix

\* pubClient.get / setex / keys / del
Get(c, key) == IF key \in DOMAIN c THEN c[key] ELSE NoEntry

\* (variant: the TTL is taken in the wrong unit and lasts twice as long)
SetexDoubleTtl(c, key, seconds, val) ==
    [c EXCEPT ![key] = [val |-> val, exp |-> now + 2 * Ticks(seconds), at |-> now, born |-> stamp + 1]]

Setex(c, key, seconds, val) ==
    [c EXCEPT ![key] = [val |-> val, exp |-> now + Ticks(seconds), at |-> now, born |-> stamp + 1]]

Keys(c, prefix) == {k \in DOMAIN c : c[k] # NoEntry /\ Matches(prefix, k)}

\* (variant: only the first key of the list is deleted)
DelFirstOnly(c, ks) ==
    IF ks = {} THEN c
    ELSE LET k1 == CHOOSE k \in ks : \A o \in ks : Len(k) <= Len(o)
         IN [c EXCEPT ![k1] = NoEntry]

Del(c, ks) == [k \in DOMAIN c |-> IF k \in ks THEN NoEntry ELSE c[k]]

\* HTTP requests in flight on the instance that serves the API.
Requests == {"q1", "q2"}
HttpInstance == "i1"
UserReadKinds == {"getMe", "getUserById", "getFriends"}
ReadKinds ==
    {"getMessage", "getChannelMessages", "getPinnedMessages", "getServerChannels"}
    \cup UserReadKinds
WriteKinds == {"updateMessage", "createChannel"}
NoRequest ==
    [kind |-> "none", id |-> Empty, page |-> Empty, cursor |-> FALSE, name |-> "", by |-> "",
     val |-> -1, hit |-> FALSE, keys |-> {}, seen |-> 0, floor |-> 0, inv0 |-> 0,
     user |-> Empty, token |-> NoToken, revoked |-> FALSE, alone |-> FALSE, wrote |-> FALSE, ok |-> FALSE, code |-> 0, retryAfter |-> 0, queued |-> FALSE]

\* The cache key a read handler uses.
CacheKeyOf(r) ==
    CASE r.kind = "getMessage" -> MessageKey(r.id)
      [] r.kind = "getChannelMessages" -> ChannelMessagesKey(r.id, r.page, DefaultLimit)
      [] r.kind = "getServerChannels" -> ServerChannelsKey(r.id)
      [] r.kind = "getMe" -> UserKey(r.user)
      [] r.kind = "getUserById" -> UserKey(r.id)
      [] r.kind = "getFriends" -> UserFriendsKey(r.user)
      [] OTHER -> PinnedMessagesKey(r.id)

\* The TTL a read handler stores its result with.
CacheTtlOf(kind) ==
    CASE kind = "getMessage" -> CACHE_TTL_MESSAGE
      [] kind = "getChannelMessages" -> CACHE_TTL_MESSAGES
      [] kind = "getServerChannels" -> CACHE_TTL_CHANNELS
      [] kind \in {"getMe", "getUserById"} -> CACHE_TTL_USER
      [] kind = "getFriends" -> CACHE_TTL_FRIENDS
      [] OTHER -> CACHE_TTL_PINNED

\* Channels created private with an allowed role that plain members do not
\* hold, and the channels of the server that getServerChannels keeps for a
\* requester: owners and admins see every channel.
PrivateChannels == {"staff"}
VisibleChannels(by) ==
    SelectSeq(channels, LAMBDA n : n \notin PrivateChannels \/ by = "admin")

\* What a read handler loads from the database: the content of the message,
\* the listing of the page (page 1 of channel a holds m1, the others are
\* empty: 0), the pinned messages (none: 0), the number of channels of the
\* server.
LoadFromDb(r) ==
    CASE r.kind = "getMessage" -> content[r.id]
      [] r.kind = "getChannelMessages" ->
            (IF r.id = ChannelOf(<<"m1">>) /\ (r.cursor \/ r.page = <<"1">>)
             THEN content[<<"m1">>] ELSE 0)
      [] r.kind = "getServerChannels" -> Len(VisibleChannels(r.by))
      [] r.kind = "getMe" -> Cardinality(FullProfile)
      [] r.kind = "getUserById" -> Cardinality(PublicProfile)
      [] r.kind = "getFriends" -> Cardinality(friends[r.user])
      [] OTHER -> 0

\* (variant: the message's own key is left out)
KeysToDeleteNoMessage(messageKeys, channelId, messageId) ==
    messageKeys \cup {PinnedMessagesKey(channelId)}

\* The keys invalidateMessageCache(channelId, messageId) deletes, given the
\* result of its KEYS call.
KeysToDelete(messageKeys, channelId, messageId) ==
    messageKeys \cup {PinnedMessagesKey(channelId)}
    \cup (IF messageId # Empty THEN {MessageKey(messageId)} ELSE {})

\* The keys invalidateChannelCache(serverId, channelId) deletes.
ChannelKeysToDelete(serverId, channelId) ==
    {ServerChannelsKey(serverId), ServerKey(serverId)}
    \cup (IF channelId # Empty THEN {ChannelKey(channelId)} ELSE {})

\* (variants of the order of updateMessage's awaits: the event is emitted
\* before the cache is invalidated; the cache is invalidated before the
\* message is saved)
NextAwaitEmitFirst(kind, at) ==
    CASE kind \in ReadKinds /\ at = "get" -> "load"
      [] kind \in ReadKinds /\ at = "load" -> "store"
      [] kind = "updateMessage" /\ at = "find" -> "save"
      [] kind = "updateMessage" /\ at = "save" -> "refetch"
      [] kind = "updateMessage" /\ at = "refetch" -> "emit"
      [] kind = "updateMessage" /\ at = "emit" -> "keys"
      [] kind = "updateMessage" /\ at = "keys" -> "del"
      [] kind = "createChannel" /\ at = "check" -> "create"
      [] kind = "createChannel" /\ at = "create" -> "push"
      [] kind = "createChannel" /\ at = "push" -> "emit"
      [] kind = "createChannel" /\ at = "emit" -> "del"
      [] OTHER -> "done"

NextAwaitInvalidateFirst(kind, at) ==
    CASE kind \in ReadKinds /\ at = "get" -> "load"
      [] kind \in ReadKinds /\ at = "load" -> "store"
      [] kind = "updateMessage" /\ at = "find" -> "keys"
      [] kind = "updateMessage" /\ at = "keys" -> "del"
      [] kind = "updateMessage" /\ at = "del" -> "save"
      [] kind = "updateMessage" /\ at = "save" -> "refetch"
      [] kind = "updateMessage" /\ at = "refetch" -> "emit"
      [] kind = "createChannel" /\ at = "check" -> "del"
      [] kind = "createChannel" /\ at = "del" -> "create"
      [] kind = "createChannel" /\ at = "create" -> "push"
      [] kind = "createChannel" /\ at = "push" -> "emit"
      [] OTHER -> "done"

\* The await that follows `at` in a handler that is not rejected.
NextAwait(kind, at) ==
    CASE kind \in ReadKinds /\ at = "get" -> "load"
      [] kind \in ReadKinds /\ at = "load" -> "store"
      [] kind = "updateMessage" /\ at = "find" -> "save"
      [] kind = "updateMessage" /\ at = "save" -> "refetch"
      [] kind = "updateMessage" /\ at = "refetch" -> "keys"
      [] kind = "updateMessage" /\ at = "keys" -> "del"
      [] kind = "updateMessage" /\ at = "del" -> "emit"
      [] kind = "createChannel" /\ at = "check" -> "create"
      [] kind = "createChannel" /\ at = "create" -> "push"
      [] kind = "createChannel" /\ at = "push" -> "del"
      [] kind = "createChannel" /\ at = "del" -> "emit"
      [] kind = "blockUser" /\ at = "lookup" -> "block"
      [] kind = "blockUser" /\ at = "block" -> "purge"
      [] OTHER -> "done"

\* The key set an invalidation is for: the keys it names and every key its
\* pattern covers.
InvalidationRule(r) ==
    IF r.kind = "createChannel" THEN ChannelKeysToDelete(r.id, Empty) \cap CacheKeys
    ELSE {k \in CacheKeys : k = MessageKey(r.id) \/ k = PinnedMessagesKey(ChannelOf(r.id))
                             \/ Matches(ChannelMessagesPattern(ChannelOf(r.id)), k)}

\* The invalidation of r, started at stamp s, has completed.
Cleared(cl, r, s) ==
    [k \in DOMAIN cl |-> IF k \in InvalidationRule(r) /\ s > cl[k] THEN s ELSE cl[k]]

\* ---- The rate limiter of the login route ----

\* loginRateLimit = createRateLimiter("login_attempts", 5, 900, ...)
LOGIN_MAX_ATTEMPTS == 5
LOGIN_WINDOW_SECONDS == 900

\* The key login_attempts:{ip} of one client: its value (0: no such key), the
\* time it expires (-1: never), and the time it was created.
NoCounter == [val |-> 0, exp |-> 0, born |-> 0]

\* pubClient.get(key), as the number parsed from it
CounterGet(c) == c.val

\* pubClient.incr(key): a key that does not exist is created with value 1
\* and no expiry; the expiry of one that exists is kept.
CounterIncr(c, t) ==
    IF c.val = 0 THEN [val |-> 1, exp |-> -1, born |-> t]
    ELSE [c EXCEPT !.val = @ + 1]

\* pubClient.setex(key, windowSeconds, "1")
CounterSetex(c, seconds, t) ==
    [val |-> 1, exp |-> t + Ticks(seconds), born |-> IF c.val = 0 THEN t ELSE c.born]

\* pubClient.ttl(key): -2 without the key, -1 without an expiry, else the
\* seconds left.
CounterTtl(c, t) ==
    IF c.val = 0 THEN -2
    ELSE IF c.exp < 0 THEN -1
    ELSE (c.exp - t) * TickSeconds

\* The key at time t, dropped by the store if its expiry has passed.
CounterExpire(c, t) ==
    IF c.val > 0 /\ c.exp >= 0 /\ c.exp <= t THEN NoCounter ELSE c

InitFor(c, n) ==
    /\ cap = c
    /\ quota = n
    /\ ioReady = [i \in Instances |-> FALSE]
    /\ redisUp = TRUE
    /\ status = [s \in Sessions |-> "new"]
    /\ inst = [s \in Sessions |-> "i1"]
    /\ token = [s \in Sessions |-> NoToken]
    /\ userId = [s \in Sessions |-> Empty]
    /\ rooms = [s \in Sessions |-> {}]
    /\ inbox = [s \in Sessions |-> <<>>]
    /\ relay = [i \in Instances |-> <<>>]
    /\ blacklist = {}
    /\ users = [u \in UserIds |-> "offline"]
    /\ writes = {}
    /\ nextId = 1
    /\ hist = [s \in Sessions |-> <<>>]
    /\ sent = <<>>
    /\ gone = <<>>
    /\ lost = {}
    /\ content = [m \in MessageIds |-> 1]
    /\ channels = <<"general">>
    /\ friends = [u \in UserIds |-> UserIds \ {u}]
    /\ cache = [k \in CacheKeys |-> NoEntry]
    /\ pc = [q \in Requests |-> "idle"]
    /\ req = [q \in Requests |-> NoRequest]
    /\ now = 0
    /\ stamp = 0
    /\ cleared = [k \in CacheKeys |-> 0]
    /\ started = 0
    /\ counter = NoCounter
    /\ tally = [recorded |-> 0, cleared |-> 0, fresh |-> FALSE]

InitWith(c) == InitFor(c, MaxRequests)

\* A UserModel.findByIdAndUpdate(uid, {status: st}) issued by a handler of
\* session s and not yet applied by the database.
Write(s, uid, st, by) == [s |-> s, uid |-> uid, st |-> st, by |-> by]

\* initSocket: waits for Redis, creates io and installs the Redis adapter.
InitSocket(i) ==
    /\ ~ioReady[i]
    /\ redisUp
    /\ ioReady' = [ioReady EXCEPT ![i] = TRUE]
    /\ UNCHANGED <<redisUp, status, inst, token, userId, rooms, inbox, relay,
                   blacklist, users, writes, nextId, cap, hist, sent, gone, lost>>
    /\ UNCHANGED svars

\* A client handshake: the middleware, then the connection handler's
\* synchronous part (join of the personal room).
Connect(s, i, t) ==
    /\ status[s] = "new"
    /\ ioReady[i]
    /\ token' = [token EXCEPT ![s] = t]
    /\ LET uid == Authenticate(t) IN
       IF uid = Null
       THEN /\ status' = [status EXCEPT ![s] = "rejected"]
            /\ UNCHANGED <<inst, userId, rooms, hist, writes>>
       ELSE /\ status' = [status EXCEPT ![s] = "open"]
            /\ inst' = [inst EXCEPT ![s] = i]
            /\ userId' = [userId EXCEPT ![s] = uid]
            /\ rooms' = [rooms EXCEPT ![s] = SocketJoin(@, PersonalRoom(uid))]
            /\ hist' = [hist EXCEPT ![s] = Append(@, Event("connect", "join", PersonalRoom(uid), "user", 0))]
            /\ writes' = writes \cup {Write(s, uid, "online", "connect")}
    /\ UNCHANGED <<ioReady, redisUp, inbox, relay, blacklist, users, nextId, cap, sent, gone, lost>>
    /\ UNCHANGED svars

\* Sessions that stop being counted as members of the rooms of earlier
\* broadcasts when s leaves `room`.
Leaves(s, room) ==
    [k \in DOMAIN gone |-> IF sent[k].room = room THEN gone[k] \cup {s} ELSE gone[k]]

Frame == UNCHANGED <<ioReady, redisUp, status, inst, token, userId, blacklist, users, writes, cap, svars>>

\* socket.on("joinRoom")
JoinRoom(s, roomId, type) ==
    /\ status[s] = "open"
    /\ nextId <= cap
    /\ gone' = Append(gone, {})
    /\ IF roomId = Empty
       THEN /\ Direct(EmitSelf(inbox, s, Message("error", Empty, Empty)), s)
            /\ UNCHANGED <<rooms, hist>>
       ELSE LET fullRoomId == RoomKey(type, roomId)
                rm == [rooms EXCEPT ![s] = SocketJoin(@, fullRoomId)]
            IN /\ rooms' = rm
               /\ hist' = [hist EXCEPT ![s] = Append(@, Event("joinRoom", "join", fullRoomId, type, nextId))]
               /\ Broadcast(EmitSelf(inbox, s, Message("joinedRoom", Empty, Empty)),
                            rm, inst[s], fullRoomId,
                            Message("user:joinedRoom", fullRoomId, userId[s]), {s}, s)
    /\ Frame

\* socket.on("leaveRoom")
LeaveRoom(s, roomId, type) ==
    /\ status[s] = "open"
    /\ nextId <= cap
    /\ roomId # Empty
    /\ LET fullRoomId == RoomKey(type, roomId)
           rm == [rooms EXCEPT ![s] = SocketLeave(@, fullRoomId)]
       IN /\ rooms' = rm
          /\ hist' = [hist EXCEPT ![s] = Append(@, Event("leaveRoom", "leave", fullRoomId, type, nextId))]
          /\ gone' = Append(Leaves(s, fullRoomId), {})
          /\ Broadcast(inbox, rm, inst[s], fullRoomId,
                       Message("user:leftRoom", fullRoomId, userId[s]), {s}, s)
    /\ Frame

\* (variant: the payload is spread after the sender is set)
NewMessageSpreadLast(message, uid) == message @@ [sender |-> uid]

\* The newMessage event: {...message, sender: {_id: socket.userId, ...}}.
NewMessage(message, uid) == [sender |-> uid] @@ message

\* socket.on("sendMessage") with the payload's message object: the event
\* carries the fields of the message and, as its actor, the sender it ends
\* up with.
SendPayload(s, channelId, hasMessage, message) ==
    /\ status[s] = "open"
    /\ nextId <= cap
    /\ gone' = Append(gone, {})
    /\ IF channelId = Empty \/ ~hasMessage
       THEN Direct(EmitSelf(inbox, s, Message("error", Empty, Empty)), s)
       ELSE LET event == NewMessage(message, userId[s])
            IN Broadcast(inbox, rooms, inst[s], ChannelRoom(channelId),
                         Message("newMessage", ChannelRoom(channelId), event.sender) @@ event,
                         {}, s)
    /\ UNCHANGED <<rooms, hist>>
    /\ Frame

\* socket.on("sendMessage") with a message that names no sender
SendMessage(s, channelId, hasMessage) ==
    SendPayload(s, channelId, hasMessage, [content |-> "plain"])

\* socket.on("typing:start") and socket.on("typing:stop")
Typing(s, channelId, ev) ==
    /\ status[s] = "open"
    /\ nextId <= cap
    /\ channelId # Empty
    /\ gone' = Append(gone, {})
    /\ Broadcast(inbox, rooms, inst[s], ChannelRoom(channelId),
                 Message(ev, ChannelRoom(channelId), userId[s]), {s}, s)
    /\ UNCHANGED <<rooms, hist>>
    /\ Frame

TypingStart(s, channelId) == Typing(s, channelId, "user:typing")
TypingStop(s, channelId) == Typing(s, channelId, "user:stoppedTyping")

\* socket.on("voice:join")
VoiceJoin(s, channelId, hasPeerId) ==
    /\ status[s] = "open"
    /\ nextId <= cap
    /\ channelId # Empty /\ hasPeerId
    /\ LET rm == [rooms EXCEPT ![s] = SocketJoin(@, VoiceRoom(channelId))]
       IN /\ rooms' = rm
          /\ hist' = [hist EXCEPT ![s] = Append(@, Event("voice:join", "join", VoiceRoom(channelId), "voice", nextId))]
          /\ gone' = Append(gone, {})
          /\ Broadcast(inbox, rm, inst[s], VoiceRoom(channelId),
                       Message("user:joinedVoice", VoiceRoom(channelId), userId[s]), {s}, s)
    /\ Frame

\* socket.on("voice:leave")
VoiceLeave(s, channelId) ==
    /\ status[s] = "open"
    /\ nextId <= cap
    /\ channelId # Empty
    /\ LET rm == [rooms EXCEPT ![s] = SocketLeave(@, VoiceRoom(channelId))]
       IN /\ rooms' = rm
          /\ hist' = [hist EXCEPT ![s] = Append(@, Event("voice:leave", "leave", VoiceRoom(channelId), "voice", nextId))]
          /\ gone' = Append(Leaves(s, VoiceRoom(channelId)), {})
          /\ Broadcast(inbox, rm, inst[s], VoiceRoom(channelId),
                       Message("user:leftVoice", VoiceRoom(channelId), userId[s]), {s}, s)
    /\ Frame

\* (variant: the signal goes to the voice room of the channel)
VoiceSignalToRoom(s, channelId, hasSignal, to) ==
    /\ status[s] = "open"
    /\ nextId <= cap
    /\ channelId # Empty /\ hasSignal /\ to # Empty
    /\ gone' = Append(gone, {})
    /\ Broadcast(inbox, rooms, inst[s], VoiceRoom(channelId),
                 Message("voice:signal", PersonalRoom(to), userId[s]), {}, s)
    /\ UNCHANGED <<rooms, hist>>
    /\ Frame

\* socket.on("voice:signal")
VoiceSignal(s, channelId, hasSignal, to) ==
    /\ status[s] = "open"
    /\ nextId <= cap
    /\ channelId # Empty /\ hasSignal /\ to # Empty
    /\ gone' = Append(gone, {})
    /\ Broadcast(inbox, rooms, inst[s], PersonalRoom(to),
                 Message("voice:signal", PersonalRoom(to), userId[s]), {}, s)
    /\ UNCHANGED <<rooms, hist>>
    /\ Frame

\* The statuses socket.on("status:update") accepts.
StatusValues == {"online", "away", "dnd", "offline"}

PresenceFrame ==
    UNCHANGED <<ioReady, redisUp, status, inst, token, userId, rooms, blacklist,
                cap, hist, svars>>

\* socket.on("status:update"), up to its await on the database: an invalid
\* status is answered with an error, a valid one is sent to the database.
StatusUpdate(s, st) ==
    /\ status[s] = "open"
    /\ nextId + Cardinality({w \in writes : w.by = "update"}) <= cap
    /\ IF st \notin StatusValues
       THEN /\ Direct(EmitSelf(inbox, s, Message("error", Empty, Empty)), s)
            /\ gone' = Append(gone, {})
            /\ UNCHANGED writes
       ELSE /\ writes' = writes \cup {Write(s, userId[s], st, "update")}
            /\ UNCHANGED <<inbox, relay, lost, sent, nextId, gone>>
    /\ UNCHANGED users
    /\ PresenceFrame

\* (variant: the handler also answers on its own socket after the write)
DbWriteEchoes(w) ==
    /\ w \in writes
    /\ users' = [users EXCEPT ![w.uid] = w.st]
    /\ writes' = writes \ {w}
    /\ IF w.by = "update"
       THEN /\ gone' = Append(gone, {})
            /\ Broadcast(EmitSelf(inbox, w.s, Message("user:statusUpdated", Empty, w.uid)),
                         rooms, inst[w.s], PersonalRoom(w.uid),
                         Message("user:statusUpdated", PersonalRoom(w.uid), w.uid), {w.s}, w.s)
       ELSE UNCHANGED <<inbox, relay, lost, sent, nextId, gone>>
    /\ PresenceFrame

\* The database applies one of the updates in flight (in any order: they
\* were issued without waiting for each other), and the handler that awaits
\* it goes on: status:update broadcasts to the user's personal room, the
\* connection and disconnect handlers do nothing more.
DbWrite(w) ==
    /\ w \in writes
    /\ users' = [users EXCEPT ![w.uid] = w.st]
    /\ writes' = writes \ {w}
    /\ IF w.by = "update"
       THEN /\ gone' = Append(gone, {})
            /\ Broadcast(inbox, rooms, inst[w.s], PersonalRoom(w.uid),
                         Message("user:statusUpdated", PersonalRoom(w.uid), w.uid), {}, w.s)
       ELSE UNCHANGED <<inbox, relay, lost, sent, nextId, gone>>
    /\ PresenceFrame

\* (variant: a close signal is handled again for a socket already closed)
DisconnectRepeated(s) ==
    /\ status[s] \in {"open", "closed"}
    /\ status' = [status EXCEPT ![s] = "closed"]
    /\ rooms' = [rooms EXCEPT ![s] = LeaveAll(@)]
    /\ hist' = [hist EXCEPT ![s] = Append(@, Event("disconnect", "leaveAll", Empty, "", 0))]
    /\ gone' = [k \in DOMAIN gone |-> gone[k] \cup {s}]
    /\ writes' = writes \cup {Write(s, userId[s], "offline", "disconnect")}
    /\ UNCHANGED <<ioReady, redisUp, inst, token, userId, inbox, relay, blacklist, users,
                   nextId, cap, sent, lost>>
    /\ UNCHANGED svars

\* The socket closes (client close, error, timeout): Socket.IO takes it out
\* of its rooms, then the "disconnect" handler runs.
Disconnect(s) ==
    /\ status[s] = "open"
    /\ status' = [status EXCEPT ![s] = "closed"]
    /\ rooms' = [rooms EXCEPT ![s] = LeaveAll(@)]
    /\ hist' = [hist EXCEPT ![s] = Append(@, Event("disconnect", "leaveAll", Empty, "", 0))]
    /\ gone' = [k \in DOMAIN gone |-> gone[k] \cup {s}]
    /\ writes' = writes \cup {Write(s, userId[s], "offline", "disconnect")}
    /\ UNCHANGED <<ioReady, redisUp, inst, token, userId, inbox, relay, blacklist, users,
                   nextId, cap, sent, lost>>
    /\ UNCHANGED svars

\* The Redis adapter of instance i receives a broadcast published by the
\* other instance and delivers it to its own sockets.
Replay(i) ==
    /\ ioReady[i]
    /\ relay[i] # <<>>
    /\ LET h == Head(relay[i])
       IN inbox' = DeliverLocal(inbox, rooms, i, h.room, h.msg, h.except)
    /\ relay' = [relay EXCEPT ![i] = Tail(@)]
    /\ UNCHANGED <<ioReady, redisUp, status, inst, token, userId, rooms, blacklist, users, writes,
                   nextId, cap, hist, sent, gone, lost>>
    /\ UNCHANGED svars

\* emitToUser / emitToServer / emitToChannel, called by the HTTP controllers
\* of instance i.
EmitTo(i, room, ev) ==
    /\ nextId <= cap
    /\ ioReady[i]
    /\ gone' = Append(gone, {})
    /\ Broadcast(inbox, rooms, i, room, Message(ev, room, Empty), {}, "http")
    /\ UNCHANGED <<rooms, hist>>
    /\ Frame

EmitToUser(i, uid) == EmitTo(i, PersonalRoom(uid), "toUser")
EmitToServer(i, sid) == EmitTo(i, <<"server:">> \o sid, "toServer")
EmitToChannel(i, cid) == EmitTo(i, ChannelRoom(cid), "toChannel")

\* The `authenticated` HTTP middleware: the user of the request, or Null.
Authenticated(t) ==
    IF t = NoToken \/ t \in blacklist THEN Null
    ELSE LET decoded == VerifyToken(t) IN
         IF ~decoded.valid \/ decoded.userId = Empty THEN Null
         ELSE FindById(decoded.userId)

\* POST /auth/logout behind `authenticated`: blacklists the request's token.
Logout(t) ==
    /\ Authenticated(t) # Null
    /\ blacklist' = blacklist \cup {t}
    /\ users' = [users EXCEPT ![Authenticated(t)] = "offline"]
    /\ UNCHANGED <<ioReady, redisUp, status, inst, token, userId, rooms, inbox, relay,
                   writes, nextId, cap, hist, sent, gone, lost>>
    /\ UNCHANGED svars

\* The pub/sub backbone becomes unreachable: what was in flight is lost.
RedisDown ==
    /\ redisUp
    /\ redisUp' = FALSE
    /\ lost' = lost \cup UNION {{relay[i][k].msg.id : k \in DOMAIN relay[i]} : i \in Instances}
    /\ relay' = [i \in Instances |-> <<>>]
    /\ UNCHANGED <<ioReady, status, inst, token, userId, rooms, inbox, blacklist, users, writes,
                   nextId, cap, hist, sent, gone>>
    /\ UNCHANGED svars

\* ioredis reconnects (retryStrategy) and the adapter is subscribed again.
RedisRecover ==
    /\ ~redisUp
    /\ redisUp' = TRUE
    /\ UNCHANGED <<ioReady, status, inst, token, userId, rooms, inbox, relay, blacklist, users, writes,
                   nextId, cap, hist, sent, gone, lost>>
    /\ UNCHANGED svars

\* ---- Handlers of the message controller ----
\* A handler runs from one await to the next in one step.  checkChannelAccess
\* only reads memberships, which no handler here changes: it is evaluated in
\* the step of the await next to it.

SocketFrame ==
    UNCHANGED <<ioReady, redisUp, status, inst, token, userId, rooms, inbox, relay,
                blacklist, users, writes, nextId, cap, hist, sent, gone, lost, quota, counter, tally>>

HasAccess(by) == by # "outsider"
MayEdit(by) == by \in {"author", "admin"}
MayManage(by) == by = "admin"

\* A request arrives and its handler runs to its first await on the cache or
\* the database.
Receive(q, kind, id, page, cursor, name, by) ==
    /\ pc[q] \in {"idle", "done", "failed"}
    /\ started < quota
    /\ ioReady[HttpInstance]
    /\ started' = started + 1
    /\ req' = [req EXCEPT ![q] = [NoRequest EXCEPT !.kind = kind, !.id = id, !.page = page,
                                                   !.cursor = cursor, !.name = name,
                                                   !.by = by,
                                                   !.seen = content[<<"m1">>],
                                                   !.floor = LET r == [NoRequest EXCEPT !.kind = kind, !.id = id, !.page = page]
                                                            IN IF kind \in ReadKinds /\ CacheKeyOf(r) \in CacheKeys
                                                               THEN cleared[CacheKeyOf(r)] ELSE 0]]
    /\ pc' = [pc EXCEPT ![q] =
                CASE kind = "updateMessage" -> "find"
                  [] kind = "createChannel" -> "check"
                  [] kind = "getMessage" -> "get"
                  [] ~HasAccess(by) -> "failed"
                  [] cursor -> "load"
                  [] OTHER -> "get"]
    /\ UNCHANGED <<content, channels, friends, cache, now, stamp, cleared>>
    /\ SocketFrame

\* getMessage (message id), for any actor.
GetMessage(q, messageId, by) == Receive(q, "getMessage", messageId, Empty, FALSE, "", by)

\* getChannelMessages (channel id, page, `before` cursor).
GetChannelMessages(q, channelId, page, cursor, by) ==
    Receive(q, "getChannelMessages", channelId, page, cursor, "", by)

\* getPinnedMessages (channel id).
GetPinnedMessages(q, channelId, by) ==
    Receive(q, "getPinnedMessages", channelId, Empty, FALSE, "", by)

\* getServerChannels (server id).
GetServerChannels(q, serverId, by) ==
    Receive(q, "getServerChannels", serverId, Empty, FALSE, "", by)

\* updateMessage (message id).
UpdateMessage(q, messageId, by) ==
    Receive(q, "updateMessage", messageId, Empty, FALSE, "", by)

\* createChannel (server id, name of the channel).
CreateChannel(q, serverId, name, by) ==
    Receive(q, "createChannel", serverId, Empty, FALSE, name, by)

\* `const cached = await pubClient.get(cacheKey)` and the return on a hit.
CacheGet(q) ==
    /\ pc[q] = "get"
    /\ redisUp
    /\ LET cached == Get(cache, CacheKeyOf(req[q])) IN
       IF cached # NoEntry
       THEN IF req[q].kind = "getMessage" /\ ~HasAccess(req[q].by)
            THEN /\ pc' = [pc EXCEPT ![q] = "failed"]
                 /\ UNCHANGED req
            ELSE /\ pc' = [pc EXCEPT ![q] = "done"]
                 /\ req' = [req EXCEPT ![q].val = cached.val, ![q].hit = TRUE]
       ELSE /\ pc' = [pc EXCEPT ![q] = NextAwait(req[q].kind, "get")]
            /\ UNCHANGED req
    /\ UNCHANGED <<content, channels, friends, cache, now, stamp, cleared, started>>
    /\ SocketFrame

\* The query a read handler runs on a miss (or with a cursor).
Load(q) ==
    /\ pc[q] = "load"
    /\ IF req[q].kind = "getMessage" /\ (req[q].id \notin MessageIds \/ ~HasAccess(req[q].by))
       THEN /\ pc' = [pc EXCEPT ![q] = "failed"]
            /\ UNCHANGED req
       ELSE /\ req' = [req EXCEPT ![q].val = LoadFromDb(req[q])]
            /\ pc' = [pc EXCEPT ![q] = IF req[q].cursor THEN "done"
                                       ELSE NextAwait(req[q].kind, "load")]
    /\ UNCHANGED <<content, channels, friends, cache, now, stamp, cleared, started>>
    /\ SocketFrame

\* `await pubClient.setex(cacheKey, ttl, JSON.stringify(result))` and the
\* response.
CacheStore(q) ==
    /\ pc[q] = "store"
    /\ redisUp
    /\ cache' = Setex(cache, CacheKeyOf(req[q]), CacheTtlOf(req[q].kind), req[q].val)
    /\ stamp' = stamp + 1
    /\ pc' = [pc EXCEPT ![q] = NextAwait(req[q].kind, "store")]
    /\ UNCHANGED <<content, channels, friends, req, now, cleared, started>>
    /\ SocketFrame

\* updateMessage: findById and the author / admin check.
FindMessage(q) ==
    /\ pc[q] = "find"
    /\ pc' = [pc EXCEPT ![q] =
                IF req[q].id \in MessageIds /\ MayEdit(req[q].by)
                THEN NextAwait(req[q].kind, "find") ELSE "failed"]
    /\ UNCHANGED <<content, channels, friends, cache, req, now, stamp, cleared, started>>
    /\ SocketFrame

\* updateMessage: message.save()
Save(q) ==
    /\ pc[q] = "save"
    /\ content' = [content EXCEPT ![req[q].id] = @ + 1]
    /\ req' = [req EXCEPT ![q].wrote = TRUE]
    /\ pc' = [pc EXCEPT ![q] = NextAwait(req[q].kind, "save")]
    /\ UNCHANGED <<channels, friends, cache, now, stamp, cleared, started>>
    /\ SocketFrame

\* updateMessage: the populated findById after the save.
Refetch(q) ==
    /\ pc[q] = "refetch"
    /\ req' = [req EXCEPT ![q].val = content[req[q].id]]
    /\ pc' = [pc EXCEPT ![q] = NextAwait(req[q].kind, "refetch")]
    /\ UNCHANGED <<content, channels, friends, cache, now, stamp, cleared, started>>
    /\ SocketFrame

\* createChannel: the permission check and the search for a channel of the
\* same name.
CheckChannel(q) ==
    /\ pc[q] = "check"
    /\ pc' = [pc EXCEPT ![q] =
                IF MayManage(req[q].by) /\ \A j \in DOMAIN channels : channels[j] # req[q].name
                THEN NextAwait(req[q].kind, "check") ELSE "failed"]
    /\ UNCHANGED <<content, channels, friends, cache, req, now, stamp, cleared, started>>
    /\ SocketFrame

\* createChannel: ChannelModel.create(...)
Create(q) ==
    /\ pc[q] = "create"
    /\ channels' = Append(channels, req[q].name)
    /\ req' = [req EXCEPT ![q].wrote = TRUE]
    /\ pc' = [pc EXCEPT ![q] = NextAwait(req[q].kind, "create")]
    /\ UNCHANGED <<content, friends, cache, now, stamp, cleared, started>>
    /\ SocketFrame

\* createChannel: ServerModel.findByIdAndUpdate(serverId, {$push: ...})
Push(q) ==
    /\ pc[q] = "push"
    /\ pc' = [pc EXCEPT ![q] = NextAwait(req[q].kind, "push")]
    /\ UNCHANGED <<content, channels, friends, cache, req, now, stamp, cleared, started>>
    /\ SocketFrame

\* invalidateMessageCache: `await pubClient.keys(...)` and the list of keys
\* to delete.
InvalidateKeys(q) ==
    /\ pc[q] = "keys"
    /\ redisUp
    /\ LET channelId == ChannelOf(req[q].id) IN
       req' = [req EXCEPT ![q].keys = KeysToDelete(Keys(cache, ChannelMessagesPattern(channelId)),
                                                   channelId, req[q].id),
                          ![q].inv0 = stamp + 1]
    /\ stamp' = stamp + 1
    /\ pc' = [pc EXCEPT ![q] = NextAwait(req[q].kind, "keys")]
    /\ UNCHANGED <<content, channels, friends, cache, now, cleared, started>>
    /\ SocketFrame

\* invalidateMessageCache: `await pubClient.del(...keysToDelete)`;
\* invalidateChannelCache: `await pubClient.del(...keys)`.
InvalidateDel(q) ==
    /\ pc[q] = "del"
    /\ redisUp
    /\ IF req[q].kind = "createChannel"
       THEN LET keys == ChannelKeysToDelete(req[q].id, Empty) IN
            /\ cache' = Del(cache, keys)
            /\ req' = [req EXCEPT ![q].keys = keys, ![q].inv0 = stamp + 1]
            /\ stamp' = stamp + 1
            /\ cleared' = Cleared(cleared, req[q], stamp + 1)
       ELSE /\ cache' = Del(cache, req[q].keys)
            /\ cleared' = Cleared(cleared, req[q], req[q].inv0)
            /\ UNCHANGED <<req, stamp>>
    /\ pc' = [pc EXCEPT ![q] = NextAwait(req[q].kind, "del")]
    /\ UNCHANGED <<content, channels, friends, now, started>>
    /\ SocketFrame

\* ---- The `authenticated` middleware and logout ----

AuthFrame ==
    UNCHANGED <<ioReady, redisUp, status, inst, token, userId, rooms, inbox, relay,
                writes, nextId, cap, hist, sent, gone, lost, quota, counter, tally,
                content, channels, friends, now, cleared>>

\* isTokenBlacklisted: `(await pubClient.get(key)) === "true"`.
IsTokenBlacklisted(t) == Get(cache, BlacklistKey(t)) # NoEntry

\* verifyToken and the user lookup of the middleware, for a token issued at
\* time 0: the user, or Null.
TokenUser(t) ==
    LET decoded == VerifyToken(t) IN
    IF ~decoded.valid \/ decoded.userId = Empty \/ now >= Ticks(TokenLifetime(t)) THEN Null
    ELSE FindById(decoded.userId)

\* A request to a route behind `authenticated` (kind "logout": POST
\* /auth/logout), up to the await on the blacklist; without a token it is
\* answered 401 at once. `revoked` records that a logout had blacklisted
\* the token before the request arrived.
AuthRequest(q, kind, t) ==
    /\ pc[q] \in {"idle", "done", "failed"}
    /\ started < quota
    /\ ioReady[HttpInstance]
    /\ started' = started + 1
    /\ req' = [req EXCEPT ![q] = [NoRequest EXCEPT !.kind = kind, !.token = t, !.by = "member",
                                                   !.revoked = t \in blacklist,
                                                   !.code = IF t = NoToken THEN 401 ELSE 0]]
    /\ pc' = [pc EXCEPT ![q] = IF t = NoToken THEN "failed" ELSE "auth"]
    /\ UNCHANGED <<cache, stamp, blacklist, users>>
    /\ AuthFrame

\* The blacklist lookup has answered: 401 for a blacklisted token, a token
\* that does not verify or a missing user; otherwise next() and the handler.
AuthCheck(q) ==
    /\ pc[q] = "auth"
    /\ redisUp
    /\ LET uid == IF IsTokenBlacklisted(req[q].token) THEN Null ELSE TokenUser(req[q].token) IN
       IF uid = Null
       THEN /\ pc' = [pc EXCEPT ![q] = "failed"]
            /\ req' = [req EXCEPT ![q].code = 401]
       ELSE /\ pc' = [pc EXCEPT ![q] = IF req[q].kind = "logout" THEN "blacklist" ELSE "done"]
            /\ req' = [req EXCEPT ![q].user = uid, ![q].ok = TRUE,
                                  ![q].code = IF req[q].kind = "logout" THEN 0 ELSE 200]
    /\ UNCHANGED <<cache, stamp, blacklist, users, started>>
    /\ AuthFrame

\* logout: `await blacklistToken(token, 604800)`.
LogoutBlacklist(q) ==
    /\ pc[q] = "blacklist"
    /\ redisUp
    /\ cache' = Setex(cache, BlacklistKey(req[q].token), BLACKLIST_TTL, 1)
    /\ stamp' = stamp + 1
    /\ blacklist' = blacklist \cup {req[q].token}
    /\ pc' = [pc EXCEPT ![q] = "offline"]
    /\ UNCHANGED <<req, users, started>>
    /\ AuthFrame

\* logout: the status write and the response.
LogoutOffline(q) ==
    /\ pc[q] = "offline"
    /\ users' = [users EXCEPT ![req[q].user] = "offline"]
    /\ pc' = [pc EXCEPT ![q] = "done"]
    /\ req' = [req EXCEPT ![q].code = 200]
    /\ UNCHANGED <<cache, stamp, blacklist, started>>
    /\ AuthFrame

\* A command sent while the store is unreachable is rejected: the error
\* passes through the middleware's catch (or out of logout) to asyncHandler
\* and the request is answered 500.
AuthStoreError(q) ==
    /\ pc[q] \in {"auth", "blacklist"}
    /\ ~redisUp
    /\ pc' = [pc EXCEPT ![q] = "failed"]
    /\ req' = [req EXCEPT ![q].code = 500]
    /\ UNCHANGED <<cache, stamp, blacklist, users, started>>
    /\ AuthFrame

\* ---- Handlers of the user controller ----

\* getMe, getFriends (id = me) and getUserById (id: the user asked for), by
\* the authenticated user `me`, up to the await on the cache.  The request
\* notes its number and whether another request was in flight on arrival.
UserRead(q, kind, me, id) ==
    /\ pc[q] \in {"idle", "done", "failed"}
    /\ started < quota
    /\ ioReady[HttpInstance]
    /\ started' = started + 1
    /\ req' = [req EXCEPT ![q] = [NoRequest EXCEPT !.kind = kind, !.id = id, !.user = me,
                                                   !.by = "member", !.seen = started + 1,
                                                   !.alone = \A o \in Requests \ {q} :
                                                       pc[o] \in {"idle", "done", "failed"}]]
    /\ pc' = [pc EXCEPT ![q] = "get"]
    /\ UNCHANGED <<content, channels, friends, cache, now, stamp, cleared>>
    /\ SocketFrame

\* blockUser of user id by `me`, up to the first findById; blocking oneself
\* is refused at once.
BlockUser(q, me, id) ==
    /\ pc[q] \in {"idle", "done", "failed"}
    /\ started < quota
    /\ ioReady[HttpInstance]
    /\ started' = started + 1
    /\ req' = [req EXCEPT ![q] = [NoRequest EXCEPT !.kind = "blockUser", !.id = id, !.user = me,
                                                   !.by = "member"]]
    /\ pc' = [pc EXCEPT ![q] = IF me = id THEN "failed" ELSE "lookup"]
    /\ UNCHANGED <<content, channels, friends, cache, now, stamp, cleared>>
    /\ SocketFrame

\* blockUser: the two findById (both users exist; the schema has no
\* blockedUsers path, so the document read never lists a blocked user).
BlockLookup(q) ==
    /\ pc[q] = "lookup"
    /\ pc' = [pc EXCEPT ![q] = NextAwait(req[q].kind, "lookup")]
    /\ UNCHANGED <<content, channels, friends, cache, req, now, stamp, cleared, started>>
    /\ SocketFrame

\* blockUser: Promise.all([currentUser.save(), targetUser.save()]), each
\* without the other in its friends.
BlockSave(q) ==
    /\ pc[q] = "block"
    /\ friends' = [friends EXCEPT ![req[q].user] = @ \ {req[q].id},
                                  ![req[q].id] = @ \ {req[q].user}]
    /\ req' = [req EXCEPT ![q].wrote = TRUE]
    /\ pc' = [pc EXCEPT ![q] = NextAwait(req[q].kind, "block")]
    /\ UNCHANGED <<content, channels, cache, now, stamp, cleared, started>>
    /\ SocketFrame

\* blockUser: invalidateUserCache(currentUserId) and the response (no search
\* result is cached here, its KEYS call finds nothing).
BlockPurge(q) ==
    /\ pc[q] = "purge"
    /\ redisUp
    /\ cache' = Del(cache, UserKeysToDelete(req[q].user))
    /\ pc' = [pc EXCEPT ![q] = NextAwait(req[q].kind, "purge")]
    /\ UNCHANGED <<content, channels, friends, req, now, stamp, cleared, started>>
    /\ SocketFrame

\* The room and the event of a handler's broadcast.
EmitRoom(r) ==
    IF r.kind = "createChannel" THEN <<"server:">> \o r.id ELSE ChannelRoom(ChannelOf(r.id))
EmitEvent(r) ==
    IF r.kind = "createChannel" THEN "channel:created" ELSE "message:updated"

\* updateMessage: emitToChannel(message.channel, "message:updated", ...);
\* createChannel: io.to(`server:${serverId}`).emit("channel:created", ...);
\* and the response.
Emit(q) ==
    /\ pc[q] = "emit"
    /\ nextId <= cap
    /\ IF ioReady[HttpInstance]
       THEN /\ Broadcast(inbox, rooms, HttpInstance, EmitRoom(req[q]),
                         Message(EmitEvent(req[q]), EmitRoom(req[q]), Empty), {}, q)
            /\ gone' = Append(gone, {})
       ELSE UNCHANGED <<inbox, relay, lost, sent, nextId, gone>>
    /\ pc' = [pc EXCEPT ![q] = NextAwait(req[q].kind, "emit")]
    /\ UNCHANGED <<content, channels, friends, cache, req, now, stamp, cleared, started>>
    /\ UNCHANGED <<rooms, hist>>
    /\ UNCHANGED <<ioReady, redisUp, status, inst, token, userId, blacklist, users, writes, cap, quota,
                   counter, tally>>

\* A command sent while the store is unreachable is rejected: the handler
\* throws and asyncHandler passes the error on.  (The other outcome, the
\* command waiting for the connection, is the handler not moving.)
StoreError(q) ==
    /\ pc[q] \in {"get", "store", "keys", "del"}
    /\ ~redisUp
    /\ pc' = [pc EXCEPT ![q] = "failed"]
    /\ UNCHANGED <<content, channels, friends, cache, req, now, stamp, cleared, started>>
    /\ SocketFrame

\* Time passes, `ticks` at a time: the store drops the entries whose TTL has
\* run out.
Elapse(ticks, limit) ==
    /\ now + ticks <= limit
    /\ now' = now + ticks
    /\ cache' = [k \in DOMAIN cache |->
                    IF cache[k] # NoEntry /\ cache[k].exp <= now + ticks THEN NoEntry ELSE cache[k]]
    /\ counter' = CounterExpire(counter, now + ticks)
    /\ UNCHANGED <<content, channels, friends, pc, req, stamp, cleared, started, quota, tally>>
    /\ UNCHANGED <<ioReady, redisUp, status, inst, token, userId, rooms, inbox, relay,
                   blacklist, users, writes, nextId, cap, hist, sent, gone, lost>>

TickTo(limit) == Elapse(1, limit)
Tick == TickTo(MaxTicks)

\* ---- Handlers of the login route ----

LoginFrame ==
    UNCHANGED <<ioReady, redisUp, status, inst, token, userId, rooms, inbox, relay,
                blacklist, users, writes, nextId, cap, hist, sent, gone, lost,
                content, channels, friends, cache, now, stamp, cleared, quota>>

\* POST /login arrives (ok: its credentials are valid) and loginRateLimit runs
\* to its `await pubClient.get(key)`.
Login(q, ok) ==
    /\ pc[q] \in {"idle", "done", "failed"}
    /\ started < quota
    /\ ioReady[HttpInstance]
    /\ started' = started + 1
    /\ req' = [req EXCEPT ![q] = [NoRequest EXCEPT !.kind = "login", !.ok = ok]]
    /\ pc' = [pc EXCEPT ![q] = "rlget"]
    /\ UNCHANGED <<counter, tally>>
    /\ LoginFrame

\* createRateLimiter: the answer of get; at the limit the handler asks for
\* the TTL, below it next() runs the login controller.
RateCheck(q) ==
    /\ pc[q] = "rlget"
    /\ redisUp
    /\ pc' = [pc EXCEPT ![q] = IF CounterGet(counter) >= LOGIN_MAX_ATTEMPTS
                               THEN "rlttl" ELSE "find"]
    /\ req' = [req EXCEPT ![q].queued = FALSE]
    /\ UNCHANGED <<counter, tally, started>>
    /\ LoginFrame

\* createRateLimiter: the answer of ttl and the 429 with retryAfter: ttl.
RateReject(q) ==
    /\ pc[q] = "rlttl"
    /\ redisUp
    /\ req' = [req EXCEPT ![q].code = 429, ![q].retryAfter = CounterTtl(counter, now),
                          ![q].queued = FALSE]
    /\ pc' = [pc EXCEPT ![q] = "failed"]
    /\ UNCHANGED <<counter, tally, started>>
    /\ LoginFrame

\* login: the user is looked up and the password compared; on a failure
\* recordLoginAttempt runs to its get, on success the handler runs to
\* clearLoginAttempts.
FindUser(q) ==
    /\ pc[q] = "find"
    /\ pc' = [pc EXCEPT ![q] = IF req[q].ok THEN "clear" ELSE "recget"]
    /\ UNCHANGED <<req, counter, tally, started>>
    /\ LoginFrame

\* recordAttempt: the answer of get chooses between incr and setex.
RecordGet(q) ==
    /\ pc[q] = "recget"
    /\ redisUp
    /\ pc' = [pc EXCEPT ![q] = IF CounterGet(counter) > 0 THEN "recincr" ELSE "recset"]
    /\ req' = [req EXCEPT ![q].queued = FALSE]
    /\ UNCHANGED <<counter, tally, started>>
    /\ LoginFrame

\* recordAttempt: `await pubClient.incr(key)` or `await pubClient.setex(key,
\* windowSeconds, "1")`, and the 401 of the login.
RecordWrite(q) ==
    /\ pc[q] \in {"recincr", "recset"}
    /\ redisUp
    /\ counter' = IF pc[q] = "recincr" THEN CounterIncr(counter, now)
                  ELSE CounterSetex(counter, LOGIN_WINDOW_SECONDS, now)
    /\ tally' = [tally EXCEPT !.recorded = @ + 1, !.fresh = FALSE]
    /\ req' = [req EXCEPT ![q].code = 401, ![q].queued = FALSE]
    /\ pc' = [pc EXCEPT ![q] = "failed"]
    /\ UNCHANGED started
    /\ LoginFrame

\* clearAttempts: `await pubClient.del(key)`, and the 200 of the login.
ClearAttempts(q) ==
    /\ pc[q] = "clear"
    /\ redisUp
    /\ counter' = NoCounter
    /\ tally' = [tally EXCEPT !.cleared = @ + 1, !.fresh = TRUE]
    /\ req' = [req EXCEPT ![q].code = 200, ![q].queued = FALSE]
    /\ pc' = [pc EXCEPT ![q] = "done"]
    /\ UNCHANGED started
    /\ LoginFrame

\* A command sent while the store is unreachable waits in the client's
\* offline queue for the reconnection (maxRetriesPerRequest: null).
StoreWait(q) ==
    /\ pc[q] \in {"rlget", "rlttl", "recget", "recincr", "recset", "clear"}
    /\ ~redisUp
    /\ ~req[q].queued
    /\ req' = [req EXCEPT ![q].queued = TRUE]
    /\ UNCHANGED <<pc, counter, tally, started>>
    /\ LoginFrame

\* A command sent while the store is unreachable is rejected: the catch of
\* createRateLimiter calls next(), those of recordAttempt and clearAttempts
\* log the error and the login answers as it would have.
RateStoreError(q) ==
    /\ pc[q] \in {"rlget", "rlttl", "recget", "recincr", "recset", "clear"}
    /\ ~redisUp
    /\ ~req[q].queued
    /\ pc' = [pc EXCEPT ![q] = CASE pc[q] \in {"rlget", "rlttl"} -> "find"
                                 [] pc[q] = "clear" -> "done"
                                 [] OTHER -> "failed"]
    /\ req' = [req EXCEPT ![q].code = CASE pc[q] \in {"rlget", "rlttl"} -> 0
                                        [] pc[q] = "clear" -> 200
                                        [] OTHER -> 401]
    /\ UNCHANGED <<counter, tally, started>>
    /\ LoginFrame

\* ---- Specifications ----

Boot(I) == \E i \in I : InitSocket(i)

Connections(I, T) ==
    \/ \E s \in Sessions, i \in I, t \in T : Connect(s, i, t)
    \/ \E s \in Sessions : Disconnect(s)

Relay == \E i \in Instances : Replay(i)

Topology(types) ==
    \/ \E s \in Sessions, r \in PayloadIds, ty \in types : JoinRoom(s, r, ty)
    \/ \E s \in Sessions, r \in PayloadIds, ty \in types : LeaveRoom(s, r, ty)

Voice ==
    \/ \E s \in Sessions, c \in PayloadIds, p \in BOOLEAN : VoiceJoin(s, c, p)
    \/ \E s \in Sessions, c \in PayloadIds : VoiceLeave(s, c)

Cast ==
    \/ \E s \in Sessions, c \in PayloadIds, m \in BOOLEAN : SendMessage(s, c, m)
    \/ \E s \in Sessions, c \in PayloadIds : TypingStart(s, c)
    \/ \E s \in Sessions, c \in PayloadIds : TypingStop(s, c)

\* Message objects in which the client names itself or user b as the sender.
ForgedMessages == {[content |-> "forged", sender |-> u] : u \in UserIds}

Impersonation ==
    \/ \E s \in Sessions, m \in ForgedMessages : SendPayload(s, <<"a">>, TRUE, m)
    \/ \E s \in Sessions : JoinRoom(s, <<"a">>, "channel")
    \/ \E s \in Sessions : TypingStart(s, <<"a">>)
    \/ \E s \in Sessions, to \in UserIds : VoiceSignal(s, <<"a">>, TRUE, to)

\* Room ids a client may forge to reach the personal room of user b.
ForgedIds == {<<"b">>, <<"user:", "b">>}

Forgery ==
    \/ \E s \in Sessions, r \in ForgedIds, ty \in PayloadTypes : JoinRoom(s, r, ty)
    \/ \E s \in Sessions, r \in ForgedIds, ty \in PayloadTypes : LeaveRoom(s, r, ty)
    \/ \E s \in Sessions, c \in ForgedIds : VoiceJoin(s, c, TRUE)
    \/ \E s \in Sessions, c \in ForgedIds : VoiceLeave(s, c)

Presence ==
    \/ \E s \in Sessions, st \in {"away", "bogus"} : StatusUpdate(s, st)
    \/ \E w \in writes : DbWrite(w)

Signal ==
    \E s \in Sessions, c \in PayloadIds, g \in BOOLEAN, to \in UserIds \cup {Empty} :
        VoiceSignal(s, c, g, to)

Http(I) ==
    \/ \E i \in I, u \in UserIds : EmitToUser(i, u)
    \/ \E i \in I, r \in RoomIds : EmitToServer(i, r)
    \/ \E i \in I, r \in RoomIds : EmitToChannel(i, r)

Outage ==
    \/ RedisDown
    \/ RedisRecover

\* The sessions S of user a on the API's instance, coming, joining the rooms
\* of channel a and server a, and going.
Audience(S) ==
    \/ \E s \in S : Connect(s, HttpInstance, "tok_a")
    \/ \E s \in S, ty \in DocTypes : JoinRoom(s, <<"a">>, ty)
    \/ \E s \in S : Disconnect(s)

\* Room membership on one instance: connections, joins and leaves of every
\* kind.
InitRooms == InitWith(MaxRoomMsgs)
NextRooms == Boot({"i1"}) \/ Connections({"i1"}, Tokens) \/ Topology(DocTypes) \/ Voice
SpecRooms == InitRooms /\ [][NextRooms]_vars

\* Client broadcasts into channel rooms, on two instances.
InitCast == InitWith(MaxCastMsgs)
NextCast == Boot(Instances) \/ Connections(Instances, Tokens) \/ Relay \/ Topology(DocTypes) \/ Cast
SpecCast == InitCast /\ [][NextCast]_vars

\* Server-side broadcasts of instance i1 over the pub/sub backbone, to
\* authenticated sessions on either instance.
GoodTokens == {"tok_a", "tok_b"}
InitBus == InitWith(MaxBusMsgs)
NextBus ==
    \/ Boot(Instances) \/ Connections(Instances, GoodTokens) \/ Relay
    \/ Topology(DocTypes) \/ Http({"i1"})
SpecBus == InitBus /\ [][NextBus]_vars

\* Room keys: joins and leaves with any payload type.
InitKeys == InitWith(MaxKeyMsgs)
NextKeys == Boot({"i1"}) \/ Connections({"i1"}, Tokens) \/ Topology(PayloadTypes)
SpecKeys == InitKeys /\ [][NextKeys]_vars

\* The gatekeeper and the token blacklist.
InitGate == InitWith(MaxGateMsgs)
NextGate ==
    \/ Boot({"i1"}) \/ Connections({"i1"}, Tokens) \/ Topology(DocTypes) \/ Cast
    \/ \E t \in Tokens : Logout(t)
SpecGate == InitGate /\ [][NextGate]_vars

\* Handler steps of the message and channel controllers, for the requests Q.
Reads(Q, ms, cs, ps, cur, as) ==
    \/ \E q \in Q, m \in ms, a \in as : GetMessage(q, m, a)
    \/ \E q \in Q, c \in cs, p \in ps, b \in cur, a \in as : GetChannelMessages(q, c, p, b, a)
    \/ \E q \in Q, c \in cs, a \in as : GetPinnedMessages(q, c, a)
    \/ \E q \in Q, a \in as : GetServerChannels(q, ServerId, a)
    \/ \E q \in Q : CacheGet(q)
    \/ \E q \in Q : Load(q)
    \/ \E q \in Q : CacheStore(q)

Edits(Q, ms, as) ==
    \/ \E q \in Q, m \in ms, a \in as : UpdateMessage(q, m, a)
    \/ \E q \in Q : FindMessage(q)
    \/ \E q \in Q : Save(q)
    \/ \E q \in Q : Refetch(q)
    \/ \E q \in Q : InvalidateKeys(q)
    \/ \E q \in Q : InvalidateDel(q)
    \/ \E q \in Q : Emit(q)

ChannelEdits(Q, ns, as) ==
    \/ \E q \in Q, n \in ns, a \in as : CreateChannel(q, ServerId, n, a)
    \/ \E q \in Q : CheckChannel(q)
    \/ \E q \in Q : Create(q)
    \/ \E q \in Q : Push(q)

\* The cache of the message controller: reads and edits of m1 by its author
\* racing, and the TTLs running out.
InitCache == InitWith(MaxRequests)
NextCache ==
    \/ Boot({HttpInstance})
    \/ Reads(Requests, MessageIds, {ChannelOf(<<"m1">>)}, Pages, {FALSE}, {"author"})
    \/ Edits(Requests, MessageIds, {"author"})
    \/ Tick
SpecCache == InitCache /\ [][NextCache]_vars

\* Edits by anyone, of a message that exists or not, next to reads of both
\* channels.
InitEdits == InitWith(MaxRequests)
NextEdits ==
    \/ Boot({HttpInstance})
    \/ Reads(Requests, MessageIds \cup {MissingMessage}, ChannelIds, {<<"1">>}, BOOLEAN, {"member", "outsider"})
    \/ Edits(Requests, MessageIds \cup {MissingMessage}, Actors)
SpecEdits == InitEdits /\ [][NextEdits]_vars

\* The store going away and coming back under the handlers that create a
\* channel or edit a message, with sessions in the rooms they announce to.
InitOutage == InitWith(MaxOutageMsgs)
NextOutage ==
    \/ Boot({HttpInstance}) \/ Connections({HttpInstance}, {"tok_a"}) \/ Topology(DocTypes)
    \/ Edits({"q1"}, MessageIds, {"author"}) \/ ChannelEdits({"q1"}, {"new"}, {"admin"})
    \/ Outage
    \/ StoreError("q1")
SpecOutage == InitOutage /\ [][NextOutage]_vars

\* Edits and channel creations announced to the sessions in the rooms, next
\* to cached reads.
InitNotify == InitWith(MaxNotifyMsgs)
NextNotify ==
    \/ Boot({HttpInstance}) \/ Audience({"s1"})
    \/ Reads({"q2"}, MessageIds, {ChannelOf(<<"m1">>)}, {<<"1">>}, {FALSE}, {"author"})
    \/ Edits({"q1"}, MessageIds, {"author"})
    \/ ChannelEdits({"q1"}, ChannelNames, {"admin"})
SpecNotify == InitNotify /\ [][NextNotify]_vars

\* Listings of both channels cached page by page, next to edits of m1.
InitPages == InitFor(MaxPageRequests, MaxPageRequests)
NextPages ==
    \/ Boot({HttpInstance})
    \/ Reads({"q2"}, MessageIds, ChannelIds, Pages, {FALSE}, {"member"})
    \/ Edits({"q1"}, MessageIds, {"author"})
SpecPages == InitPages /\ [][NextPages]_vars

\* Cached reads by the author of m1 while the store goes away and comes back.
InitFailOpen == InitWith(MaxRequests)
NextFailOpen ==
    \/ Boot({HttpInstance})
    \/ Reads({"q1"}, MessageIds, {ChannelOf(<<"m1">>)}, {<<"1">>}, {FALSE}, {"author"})
    \/ Outage
    \/ StoreError("q1")
SpecFailOpen == InitFailOpen /\ [][NextFailOpen]_vars

\* Logins of one client, failing and succeeding, while its counter expires.
Logins(Q) ==
    \/ \E q \in Q, ok \in BOOLEAN : Login(q, ok)
    \/ \E q \in Q : RateCheck(q)
    \/ \E q \in Q : RateReject(q)
    \/ \E q \in Q : FindUser(q)
    \/ \E q \in Q : RecordGet(q)
    \/ \E q \in Q : RecordWrite(q)
    \/ \E q \in Q : ClearAttempts(q)

InitRate == InitFor(MaxLoginRequests, MaxLoginRequests)
NextRate ==
    \/ Boot({HttpInstance})
    \/ Logins(Requests)
    \/ TickTo(MaxRateTicks)
SpecRate == InitRate /\ [][NextRate]_vars

\* Logins of one client while the store goes away and comes back.
InitRateOutage == InitFor(MaxLoginRequests, MaxLoginRequests)
NextRateOutage ==
    \/ Boot({HttpInstance})
    \/ Logins(Requests)
    \/ Outage
    \/ \E q \in Requests : StoreWait(q)
    \/ \E q \in Requests : RateStoreError(q)
SpecRateOutage == InitRateOutage /\ [][NextRateOutage]_vars

\* Requests behind `authenticated` and logouts, with the store failing and
\* the weeks passing.
InitAuth == InitWith(MaxRequests)
NextAuth ==
    \/ Boot({HttpInstance})
    \/ \E q \in Requests, k \in {"request", "logout"}, t \in GoodTokens \cup {NoToken} :
          AuthRequest(q, k, t)
    \/ \E q \in Requests : AuthCheck(q)
    \/ \E q \in Requests : LogoutBlacklist(q)
    \/ \E q \in Requests : LogoutOffline(q)
    \/ \E q \in Requests : AuthStoreError(q)
    \/ Outage
    \/ Elapse(Ticks(JWT_EXPIRE_DEFAULT), MaxWeeks * Ticks(JWT_EXPIRE_DEFAULT))
SpecAuth == InitAuth /\ [][NextAuth]_vars

\* The user controller: profiles and friends lists read through the cache,
\* next to a user blocking the other.
InitUsers == InitWith(MaxRequests)
NextUsers ==
    \/ Boot({HttpInstance})
    \/ \E q \in Requests, me \in UserIds : UserRead(q, "getMe", me, me)
    \/ \E q \in Requests, me \in UserIds : UserRead(q, "getFriends", me, me)
    \/ \E q \in Requests, me, id \in UserIds : UserRead(q, "getUserById", me, id)
    \/ \E q \in Requests : CacheGet(q) \/ Load(q) \/ CacheStore(q)
    \/ \E q \in Requests, me, id \in UserIds : BlockUser(q, me, id)
    \/ \E q \in Requests : BlockLookup(q) \/ BlockSave(q) \/ BlockPurge(q)
    \/ Tick
SpecUsers == InitUsers /\ [][NextUsers]_vars

\* The channel list of the server read by an admin and by a plain member,
\* next to the creation of a private channel.
InitVisible == InitWith(MaxRequests)
NextVisible ==
    \/ Boot({HttpInstance})
    \/ \E q \in Requests, a \in {"admin", "member"} : GetServerChannels(q, ServerId, a)
    \/ \E q \in Requests : CacheGet(q) \/ Load(q) \/ CacheStore(q)
    \/ ChannelEdits(Requests, PrivateChannels, {"admin"})
    \/ Tick
SpecVisible == InitVisible /\ [][NextVisible]_vars

\* The actor of outbound events against payloads that name a sender.
InitActor == InitWith(MaxActorMsgs)
NextActor == Boot({"i1"}) \/ Connections({"i1"}, GoodTokens) \/ Impersonation
SpecActor == InitActor /\ [][NextActor]_vars

\* Personal rooms against forged room ids, on one instance.
InitForgery == InitWith(MaxKeyMsgs)
NextForgery == Boot({"i1"}) \/ Connections({"i1"}, GoodTokens) \/ Forgery
SpecForgery == InitForgery /\ [][NextForgery]_vars

\* Presence: the status writes of connection, status:update and disconnect.
InitPresence == InitWith(MaxPresenceMsgs)
NextPresence == Boot({"i1"}) \/ Connections({"i1"}, GoodTokens) \/ Presence
SpecPresence == InitPresence /\ [][NextPresence]_vars

\* Voice rooms and the signalling between their users, on one instance.
InitSignal == InitWith(MaxSignalMsgs)
NextSignal == Boot({"i1"}) \/ Connections({"i1"}, GoodTokens) \/ Voice \/ Signal
SpecSignal == InitSignal /\ [][NextSignal]_vars

\* ---- Properties ----

AllRooms ==
    {p \o x : p \in {<<"user:">>, <<"channel:">>, <<"server:">>, <<"voice:">>},
              x \in UserIds \cup RoomIds}

\* Session s holds message k (event ev) in its inbox.
Has(s, k, ev) == \E j \in DOMAIN inbox[s] : inbox[s][j].id = k /\ inbox[s][j].ev = ev

\* Broadcast k is still on its way to instance i.
Pending(k, i) == \E j \in DOMAIN relay[i] : relay[i][j].msg.id = k

\* History entry e takes its session out of room r.
Removes(e, r) == (e.op = "leave" /\ e.room = r) \/ e.op = "leaveAll"

\* The rooms s has ever joined.
JoinedEver(s) == {hist[s][j].room : j \in {j \in DOMAIN hist[s] : hist[s][j].op = "join"}}

\* s issued joinRoom for r at entries i < j of its history and nothing since
\* i took it out of r.
TwiceJoined(s, r) ==
    \E i, j \in DOMAIN hist[s] :
        /\ i < j
        /\ hist[s][i].ev = "joinRoom" /\ hist[s][i].room = r
        /\ hist[s][j].ev = "joinRoom" /\ hist[s][j].room = r
        /\ \A k \in (i + 1)..Len(hist[s]) : ~Removes(hist[s][k], r)

\* s joined r twice and then issued one leaveRoom for r, its last event on r.
TwiceJoinedThenLeft(s, r) ==
    \E i, j, l \in DOMAIN hist[s] :
        /\ i < j /\ j < l
        /\ hist[s][i].ev = "joinRoom" /\ hist[s][i].room = r
        /\ hist[s][j].ev = "joinRoom" /\ hist[s][j].room = r
        /\ \A k \in (i + 1)..(l - 1) : ~Removes(hist[s][k], r)
        /\ hist[s][l].ev = "leaveRoom" /\ hist[s][l].room = r
        /\ \A k \in (l + 1)..Len(hist[s]) : hist[s][k].room # r

\* C1: once a session has disconnected it is in no room, its personal room
\* included, and nothing is delivered to it any more.
C1_DisconnectLeavesNoMembership ==
    [][\A s \in Sessions :
          status'[s] = "closed" =>
              /\ rooms'[s] = {}
              /\ status[s] = "closed" => inbox'[s] = inbox[s]]_vars

\* A closed session that had joined a room by an event, and a broadcast to
\* that room made after it disconnected.
C1_Witness ==
    \E s \in Sessions, k \in DOMAIN sent :
        /\ status[s] = "closed"
        /\ s \notin gone[k]
        /\ sent[k].room \in JoinedEver(s)
        /\ Head(sent[k].room) # "user:"

\* C2: a handshake with a missing, invalid or expired token, or for a user
\* that does not exist, is rejected: the connection is in no room, no event
\* of it is handled and nothing is sent to it.
FailingTokens == {NoToken, "garbage", "expired", "nouid", "tok_z"}

C2_FailedHandshakeHasNoSession ==
    \A s \in Sessions :
        (status[s] # "new" /\ token[s] \in FailingTokens) =>
            /\ status[s] = "rejected"
            /\ rooms[s] = {}
            /\ hist[s] = <<>>
            /\ inbox[s] = <<>>
            /\ \A k \in DOMAIN sent : sent[k].by # s

\* A connection rejected for an expired token while another session is
\* connected and has had an event handled.
C2_Witness ==
    \E s, o \in Sessions :
        /\ status[s] = "rejected" /\ token[s] = "expired"
        /\ status[o] = "open"
        /\ \E k \in DOMAIN sent : sent[k].by = o

\* C3: a handshake whose token is blacklisted is rejected, no session is
\* created for it.
C3_BlacklistedHandshakeRejected ==
    [][\A s \in Sessions :
          (status[s] = "new" /\ token'[s] \in blacklist) => status'[s] # "open"]_vars

\* C4: a session is in a room exactly when it joined it (by connecting, by
\* joinRoom or by voice:join) and has since neither left it nor disconnected.
MemberByHistory(s, r) ==
    \E i \in DOMAIN hist[s] :
        /\ hist[s][i].op = "join" /\ hist[s][i].room = r
        /\ \A k \in (i + 1)..Len(hist[s]) : ~Removes(hist[s][k], r)

C4_MemberIffJoinedAndNotLeft ==
    \A s \in Sessions :
        /\ rooms[s] \subseteq AllRooms
        /\ \A r \in AllRooms : r \in rooms[s] <=> MemberByHistory(s, r)

\* An open session that joined a room, left it and is not in it.
C4_Witness ==
    \E s \in Sessions : \E i, j \in DOMAIN hist[s] :
        /\ status[s] = "open"
        /\ i < j
        /\ hist[s][i].op = "join"
        /\ hist[s][j].op = "leave" /\ hist[s][j].room = hist[s][i].room
        /\ hist[s][i].room \notin rooms[s]

\* C5: after two joinRoom events for one room the session is a member of it,
\* one leaveRoom takes it out, and it holds no broadcast twice.
C5_DoubleJoinIsOneMembership ==
    \A s \in Sessions :
        /\ \A r \in AllRooms :
              /\ TwiceJoined(s, r) => r \in rooms[s]
              /\ TwiceJoinedThenLeft(s, r) => r \notin rooms[s]
        /\ \A a, b \in DOMAIN inbox[s] :
              (inbox[s][a].id = inbox[s][b].id /\ inbox[s][a].ev = inbox[s][b].ev) => a = b

\* A session that joined a room twice and then received a broadcast made to
\* that room.
C5_Witness ==
    \E s \in Sessions, r \in AllRooms, k \in DOMAIN sent :
        /\ TwiceJoined(s, r)
        /\ sent[k].room = r /\ sent[k].by # s
        /\ \A j \in DOMAIN hist[s] : (hist[s][j].room = r) => hist[s][j].at < k
        /\ Has(s, k, sent[k].ev)

\* The step is a joinRoom of s for a room it is already in.
Rejoin(s) ==
    /\ status[s] = "open"
    /\ Len(hist'[s]) = Len(hist[s]) + 1
    /\ hist'[s][Len(hist'[s])].ev = "joinRoom"
    /\ hist'[s][Len(hist'[s])].room \in rooms[s]

\* C6 as stated: a joinRoom of a session already in the room changes no
\* membership and sends nothing to anyone.
C6_RejoinIsSilent ==
    [][\A s \in Sessions : Rejoin(s) => (rooms' = rooms /\ inbox' = inbox)]_vars

\* C6 as amended: a joinRoom of a session already in the room changes no
\* membership; the handler still sends joinedRoom to the session and
\* user:joinedRoom to the other members of the room on its instance.
C6_RejoinKeepsMembership ==
    [][\A s \in Sessions :
          Rejoin(s) =>
              LET r == hist'[s][Len(hist'[s])].room IN
              /\ rooms' = rooms
              /\ inbox'[s] = Append(inbox[s], Message("joinedRoom", Empty, Empty))
              /\ \A o \in Sessions \ {s} :
                    inbox'[o] = IF r \in rooms[o] /\ inst[o] = inst[s]
                                THEN Append(inbox[o], Message("user:joinedRoom", r, userId[s]))
                                ELSE inbox[o]]_vars

\* A session that joined a room twice and holds two joinedRoom confirmations.
C6_Witness ==
    \E s \in Sessions, r \in AllRooms :
        /\ TwiceJoined(s, r)
        /\ Cardinality({j \in DOMAIN inbox[s] : inbox[s][j].ev = "joinedRoom"}) >= 2

\* C7: payloads with the same roomId and different types derive different
\* rooms, so no joinRoom or leaveRoom acts on the room of another type.
C7_TypesNeverCollide ==
    \A s \in Sessions, x \in RoomIds : \A j \in DOMAIN hist[s] :
        (hist[s][j].ev \in {"joinRoom", "leaveRoom"} /\ hist[s][j].room = RoomKey(hist[s][j].type, x))
            => \A t \in PayloadTypes \ {hist[s][j].type} : RoomKey(t, x) # hist[s][j].room

\* C8: a typing event never comes back to the session that sent it, and it
\* reaches every other member of the channel: at once on the sender's
\* instance, and on the other instance when the broadcast is replayed there
\* to the sessions still in the channel.
TypingEvents == {"user:typing", "user:stoppedTyping"}

Reached(k, s) ==
    \/ inst[s] = sent[k].inst
    \/ s \notin gone[k] /\ ~Pending(k, inst[s])

C8_TypingExcludesSender ==
    \A k \in DOMAIN sent :
        sent[k].ev \in TypingEvents =>
            /\ ~Has(sent[k].by, k, sent[k].ev)
            /\ \A s \in sent[k].members \ {sent[k].by} : Reached(k, s) => Has(s, k, sent[k].ev)

\* A typing event that another session received.
C8_Witness ==
    \E k \in DOMAIN sent, s \in Sessions :
        /\ sent[k].ev \in TypingEvents
        /\ s # sent[k].by
        /\ Has(s, k, sent[k].ev)

\* C9: newMessage reaches every member of the channel, the sender included
\* when it is a member, and a session receives it only while it is in the
\* channel.
C9_Delivered ==
    \A k \in DOMAIN sent :
        sent[k].ev = "newMessage" =>
            \A s \in sent[k].members : Reached(k, s) => Has(s, k, "newMessage")

C9_NewMessageToMembersOnly ==
    [][/\ C9_Delivered'
       /\ \A s \in Sessions :
             (inbox'[s] # inbox[s] /\ inbox'[s][Len(inbox'[s])].ev = "newMessage")
                 => inbox'[s][Len(inbox'[s])].room \in rooms[s]]_vars

\* A sender that is in the channel and received its own newMessage.
C9_Witness ==
    \E k \in DOMAIN sent :
        /\ sent[k].ev = "newMessage"
        /\ sent[k].by \in sent[k].members
        /\ Has(sent[k].by, k, "newMessage")

C11_OutageNeitherBlocksNorFails ==
    /\ \A k \in DOMAIN sent : \A s \in sent[k].members :
          inst[s] = sent[k].inst => Has(s, k, sent[k].ev)
    /\ \A q \in Requests :
          req[q].wrote =>
              /\ pc[q] # "failed"
              /\ pc[q] \in {"keys", "del"} => ENABLED (InvalidateKeys(q) \/ InvalidateDel(q))

\* Entry j of the inbox of s is a broadcast to a room, published by the
\* instance s is connected to.
LocalBroadcast(s, j) ==
    /\ inbox[s][j].room # Empty
    /\ sent[inbox[s][j].id].room = inbox[s][j].room
    /\ sent[inbox[s][j].id].inst = inst[s]

\* C12: two broadcasts that one instance publishes to one room reach every
\* session of that instance that receives both in the order of the publish
\* calls.
C12_LocalOrderIsPublishOrder ==
    \A s \in Sessions : \A a, b \in DOMAIN inbox[s] :
        (/\ a < b
         /\ LocalBroadcast(s, a) /\ LocalBroadcast(s, b)
         /\ inbox[s][a].room = inbox[s][b].room)
            => inbox[s][a].id < inbox[s][b].id

\* A session that holds two broadcasts its own instance's controllers
\* published to one room.
C12_Witness ==
    \E s \in Sessions : \E a, b \in DOMAIN inbox[s] :
        /\ a < b
        /\ LocalBroadcast(s, a) /\ LocalBroadcast(s, b)
        /\ inbox[s][a].room = inbox[s][b].room
        /\ sent[inbox[s][a].id].by = "http" /\ sent[inbox[s][b].id].by = "http"

\* Broadcast k was published by a controller to a room no session was in.
ToEmptyRoom(k) == sent[k].by = "http" /\ sent[k].members = {}
ToEmptyRoomNext(k) == sent'[k].by = "http" /\ sent'[k].members = {}

\* C13 as stated: a broadcast to a room that has no member on any instance
\* is delivered to no session.
C13_EmptyRoomDeliversToNoOne ==
    \A k \in DOMAIN sent : ToEmptyRoom(k) => \A s \in Sessions : ~Has(s, k, sent[k].ev)

\* C13 as amended: publishing to a room that has no member on any instance
\* changes no inbox, no membership and no connection; the broadcast is later
\* delivered only on the other instance, by its replay, to a session that
\* has joined the room in the meantime.
C13_EmptyRoomReachesOnlyLateJoiners ==
    [][/\ (nextId' = nextId + 1 /\ ToEmptyRoomNext(nextId))
            => (inbox' = inbox /\ rooms' = rooms /\ status' = status /\ userId' = userId)
       /\ \A s \in Sessions :
             (inbox'[s] # inbox[s] /\ ToEmptyRoomNext(inbox'[s][Len(inbox'[s])].id))
                 => LET m == inbox'[s][Len(inbox'[s])] IN
                    /\ inst[s] # sent[m.id].inst
                    /\ m.room \in rooms[s]
                    /\ relay[inst[s]] # <<>> /\ Head(relay[inst[s]]).msg = m]_vars

\* A broadcast to a room without members that the other instance, with a
\* session connected to it, has replayed, and that nobody holds.
C13_Witness ==
    \E k \in DOMAIN sent, o \in Sessions :
        /\ ToEmptyRoom(k)
        /\ k \notin lost
        /\ status[o] = "open" /\ inst[o] # sent[k].inst
        /\ ~Pending(k, inst[o])
        /\ \A j \in DOMAIN hist[o] : hist[o][j].at < k
        /\ \A s \in Sessions : ~Has(s, k, sent[k].ev)

\* The response of request r shows the content of m1.
ShowsMessage(r) ==
    \/ r.kind = "getMessage" /\ r.id = <<"m1">>
    \/ r.kind = "getChannelMessages" /\ r.id = ChannelOf(<<"m1">>) /\ r.page = <<"1">>

\* Request q has been answered from the cache.
Hit(q) == pc[q] = "done" /\ req[q].hit

\* C14 as stated: a getMessage or getChannelMessages issued after an edit of
\* the message has been saved never answers with the content from before the
\* edit out of the cache.
C14_ReadAfterCommitNeverStale ==
    \A q \in Requests :
        (Hit(q) /\ ShowsMessage(req[q])) => req[q].val >= req[q].seen

\* C14 as amended: a read issued after the invalidation of an edit has
\* completed is never answered from a cache entry stored before that
\* invalidation started.  (It can still get the old content from an entry
\* that a concurrent read stored after the invalidation.)
C14_ReadAfterInvalidationSkipsOldEntries ==
    [][\A q \in Requests :
          (pc[q] = "get" /\ pc'[q] = "done")
              => /\ Get(cache, CacheKeyOf(req[q])).born > req[q].floor
                 /\ req'[q].val = Get(cache, CacheKeyOf(req[q])).val]_vars

\* A read issued after an edit's invalidation had completed and answered from
\* the cache with the content from before the edit.
C14_Witness ==
    \E q \in Requests :
        /\ Hit(q) /\ ShowsMessage(req[q])
        /\ req[q].floor > 0
        /\ req[q].val < req[q].seen

\* C15 as stated: once an invalidation has returned, a get of any key it
\* covers is a miss.
C15_GetAfterInvalidationMisses ==
    [][\A q \in Requests :
          (/\ pc[q] = "get" /\ pc'[q] # "get"
           /\ CacheKeyOf(req[q]) \in CacheKeys
           /\ cleared[CacheKeyOf(req[q])] > 0) => pc'[q] = "load"]_vars

\* C15 as amended: once an invalidation has returned, no key it covers holds
\* an entry stored before the invalidation started: a get of the key is a
\* miss unless a read handler has stored the key again since.
C15_NoEntryOlderThanInvalidation ==
    \A k \in CacheKeys : cache[k] # NoEntry => cache[k].born > cleared[k]

\* A page that was cached when an edit's invalidation started and is absent
\* after it, next to the message key stored again since.
C15_Witness ==
    \E q \in Requests : \E k \in req[q].keys \cap CacheKeys :
        /\ req[q].kind = "updateMessage" /\ pc[q] \in {"emit", "done"}
        /\ Matches(ChannelMessagesPattern(ChannelOf(req[q].id)), k)
        /\ cache[k] = NoEntry
        /\ cache[MessageKey(req[q].id)] # NoEntry

\* The step is the emit of the handler of request q.
Emits(q) == pc[q] = "emit" /\ pc'[q] # "emit"

\* C16: when a handler that invalidates cache keys and broadcasts an event
\* emits the event, its invalidation has run and every key it covers is
\* absent or has been stored again since.
C16_InvalidationBeforeBroadcast ==
    [][\A q \in Requests :
          Emits(q) =>
              /\ req[q].inv0 > 0
              /\ \A k \in InvalidationRule(req[q]) :
                    cache[k] = NoEntry \/ cache[k].born > req[q].inv0]_vars

\* A session holds the message:updated event of an edit whose invalidation
\* deleted a cached page.
C16_Witness ==
    \E q \in Requests, s \in Sessions, k \in DOMAIN sent :
        /\ sent[k].by = q /\ req[q].kind = "updateMessage" /\ pc[q] = "done"
        /\ Has(s, k, "message:updated")
        /\ \E p \in req[q].keys : Matches(ChannelMessagesPattern(ChannelOf(req[q].id)), p)

\* The step starts the invalidation of request q, or deletes keys for it.
Invalidates(q) == pc[q] \in {"keys", "del"} /\ pc'[q] # pc[q]

\* The step ends the handler of request q with an error.
Rejects(q) == pc[q] \notin {"idle", "done", "failed"} /\ pc'[q] = "failed"

\* C17: a handler starts its invalidation, and deletes keys, only after its
\* own write is in the database; a step takes an entry out of the cache only
\* as the delete of such a handler (or as time passing); and a handler that
\* is rejected has written nothing, has invalidated nothing and leaves the
\* cache as it is.
C17_InvalidationOnlyAfterWrite ==
    [][/\ \A q \in Requests :
             /\ Invalidates(q) =>
                    /\ req[q].wrote
                    /\ req[q].kind = "updateMessage" => content[req[q].id] > req[q].seen
             /\ (Rejects(q) /\ req[q].kind \in WriteKinds) =>
                    /\ ~req[q].wrote /\ req[q].inv0 = 0 /\ req[q].keys = {}
                    /\ cache' = cache /\ cleared' = cleared /\ content' = content
       /\ (now' = now /\ \E k \in CacheKeys : cache[k] # NoEntry /\ cache'[k] = NoEntry)
             => \E q \in Requests : pc[q] = "del" /\ pc'[q] # "del" /\ req[q].wrote]_vars

\* An edit of m1 that was rejected, with the message's cache entry in place,
\* after an edit that was saved and whose invalidation has completed.
C17_Witness ==
    \E q \in Requests :
        /\ req[q].kind = "updateMessage" /\ pc[q] = "failed"
        /\ cache[MessageKey(<<"m1">>)] # NoEntry
        /\ cleared[MessageKey(<<"m1">>)] > 0
        /\ content[<<"m1">>] > 1

\* The key of page p of the listing of channel c.
PageKey(c, p) == ChannelMessagesKey(c, p, DefaultLimit)

TtlOfKey(k) ==
    CASE k \in {MessageKey(m) : m \in MessageIds} -> CACHE_TTL_MESSAGE
      [] k \in {PinnedMessagesKey(c) : c \in ChannelIds} -> CACHE_TTL_PINNED
      [] k = ServerChannelsKey(ServerId) -> CACHE_TTL_CHANNELS
      [] k \in {UserKey(u) : u \in UserIds} -> CACHE_TTL_USER
      [] k \in {UserFriendsKey(u) : u \in UserIds} -> CACHE_TTL_FRIENDS
      [] OTHER -> CACHE_TTL_MESSAGES

\* C19: every entry in the cache expires a finite time after it was stored,
\* the TTL of its key, and is in the cache only before that time; a read
\* answered from the cache, with a stale value or not, is answered from an
\* entry younger than its TTL.
C19_NoValueOutlivesItsTtl ==
    [][/\ \A k \in CacheKeys :
             cache'[k] # NoEntry =>
                 /\ cache'[k].exp = cache'[k].at + Ticks(TtlOfKey(k))
                 /\ cache'[k].at <= now' /\ now' < cache'[k].exp
       /\ \A q \in Requests :
             (pc[q] = "get" /\ pc'[q] = "done") =>
                 LET e == Get(cache, CacheKeyOf(req[q])) IN
                 /\ req'[q].val = e.val
                 /\ now - e.at < Ticks(TtlOfKey(CacheKeyOf(req[q])))]_vars

\* A read answered from an entry that a racing read stored with the content
\* from before an edit, after the edit's invalidation; the entry has since
\* expired.
C19_Witness ==
    \E q \in Requests :
        /\ Hit(q) /\ ShowsMessage(req[q])
        /\ req[q].val < content[<<"m1">>]
        /\ cleared[CacheKeyOf(req[q])] > 0
        /\ now > 0
        /\ cache[CacheKeyOf(req[q])] = NoEntry

\* C20: while the store is unreachable a cached read of a document that
\* exists, by someone who may read it, does not fail and does not wait for the
\* store: its handler goes on to the database and answers.
C20_ReadsFailOpen ==
    \A q \in Requests :
        (req[q].kind \in ReadKinds /\ HasAccess(req[q].by)
         /\ (req[q].kind = "getMessage" => req[q].id \in MessageIds)) =>
            /\ pc[q] # "failed"
            /\ pc[q] \in {"get", "store"} => ENABLED (CacheGet(q) \/ CacheStore(q))

\* C21: a mutation whose write is in the database is not answered with an
\* error because its cache invalidation failed on the store: a handler that
\* ends with an error has written nothing.
C21_InvalidationErrorNotSurfaced ==
    \A q \in Requests :
        (req[q].kind \in WriteKinds /\ pc[q] = "failed") => ~req[q].wrote

\* C22: a login attempt that finds 5 or more failures recorded is rejected
\* with status 429 and a retryAfter above 0 and of at most 900 seconds; one
\* that finds fewer goes on to the login handler.
C22_FifthFailureLocksOut ==
    [][\A q \in Requests :
          /\ (pc[q] = "rlget" /\ pc'[q] # "rlget") =>
                (pc'[q] = "find" <=> CounterGet(counter) < LOGIN_MAX_ATTEMPTS)
          /\ (pc[q] = "rlttl" /\ pc'[q] # "rlttl") =>
                /\ pc'[q] = "failed" /\ req'[q].code = 429
                /\ req'[q].retryAfter > 0
                /\ req'[q].retryAfter <= LOGIN_WINDOW_SECONDS]_vars

\* C23: a rate counter that exists expires, one window after the failure
\* that created it; later failures do not move the expiry.
C23_CounterAlwaysExpiresWithItsWindow ==
    counter.val > 0 => counter.exp = counter.born + Ticks(LOGIN_WINDOW_SECONDS)

\* C24: while the window of the first failure lasts and nothing has cleared
\* the counter, its value is the number of recordAttempt calls completed.
C24_CounterCountsEveryFailure ==
    (now < Ticks(LOGIN_WINDOW_SECONDS) /\ tally.cleared = 0)
        => counter.val = tally.recorded

\* The step completes a recordAttempt call.
Records(q) == pc[q] \in {"recincr", "recset"} /\ pc'[q] = "failed"

\* C25: after clearAttempts has deleted the counter, a rate check lets the
\* attempt through until a failure is recorded, and the first failure
\* recorded leaves the counter at 1 with the whole window to live.
C25_ClearResetsTheWindow ==
    [][\A q \in Requests :
          /\ (tally.fresh /\ pc[q] = "rlget" /\ pc'[q] # "rlget") => pc'[q] = "find"
          /\ (tally.fresh /\ Records(q)) =>
                /\ counter'.val = 1
                /\ counter'.exp = now + Ticks(LOGIN_WINDOW_SECONDS)]_vars

\* C26: while the store is unreachable no command of the rate limiter keeps
\* a login waiting; the rate check lets the attempt through to the login
\* handler, and a failed recordAttempt or clearAttempts leaves the login with
\* the answer it would have given.
C26_RateGuardFailsOpen ==
    [][\A q \in Requests :
          /\ ~(req'[q].kind = "login" /\ req'[q].queued /\ ~redisUp')
          /\ (~redisUp /\ pc'[q] # pc[q]) =>
                /\ pc[q] \in {"rlget", "rlttl"} => pc'[q] = "find"
                /\ pc[q] \in {"recget", "recincr", "recset"} =>
                      (pc'[q] = "failed" /\ req'[q].code = 401)
                /\ pc[q] = "clear" => (pc'[q] = "done" /\ req'[q].code = 200)]_vars

\* A room of a channel, a server or a voice channel.
EntityRoom(room) == room # Empty /\ Head(room) \in {"channel:", "server:", "voice:"}

\* C27: a session whose user is not a member of the server is in none of
\* its rooms, and no event of that session is broadcast to them.
C27_NonMemberEventRejected ==
    \A s \in Sessions :
        userId[s] \notin ServerMembers =>
            /\ \A r \in rooms[s] : ~EntityRoom(r)
            /\ \A k \in DOMAIN sent : sent[k].by = s => ~EntityRoom(sent[k].room)

\* C28: a voice:signal event reaches a session only through the personal
\* room of the user the payload names, which is the session's own user, and
\* relaying it changes no room membership and no connection.
C28_SignalOnlyToTargetUser ==
    [][/\ \A s \in Sessions :
             (Len(inbox'[s]) > Len(inbox[s])
              /\ inbox'[s][Len(inbox'[s])].ev = "voice:signal") =>
                 /\ inbox'[s][Len(inbox'[s])].room = PersonalRoom(userId[s])
                 /\ PersonalRoom(userId[s]) \in rooms[s]
       /\ (Len(sent') > Len(sent) /\ sent'[Len(sent')].ev = "voice:signal") =>
             (rooms' = rooms /\ status' = status)]_vars

\* Two sessions of different users in one voice room: the signal one of
\* them sent to the other's user is held by the other and not by the sender.
C28_Witness ==
    \E k \in DOMAIN sent, s, o \in Sessions, c \in RoomIds :
        /\ sent[k].ev = "voice:signal" /\ sent[k].by = o
        /\ userId[s] # userId[o]
        /\ VoiceRoom(c) \in rooms[s] /\ VoiceRoom(c) \in rooms[o]
        /\ Has(s, k, "voice:signal")
        /\ ~Has(o, k, "voice:signal")

\* C29: a session is in its personal room from the handshake on: the join
\* is the first thing recorded for it, before any inbound event, and every
\* open session is a member of the personal room of its user.
C29_PersonalRoomWhileConnected ==
    \A s \in Sessions :
        /\ status[s] = "open" => PersonalRoom(userId[s]) \in rooms[s]
        /\ hist[s] # <<>> =>
              /\ hist[s][1].ev = "connect"
              /\ hist[s][1].op = "join"
              /\ hist[s][1].room = PersonalRoom(userId[s])

\* An open session that asked to leave the room named by its own user id
\* with type "user", and is still in its personal room.
C29_Witness ==
    \E s \in Sessions : \E j \in DOMAIN hist[s] :
        /\ status[s] = "open"
        /\ hist[s][j].ev = "leaveRoom"
        /\ hist[s][j].type = "user"
        /\ hist[s][j].room = <<"server:">> \o userId[s]
        /\ PersonalRoom(userId[s]) \in rooms[s]

SessionsOf(u) == {s \in Sessions : status[s] \in {"open", "closed"} /\ userId[s] = u}
AtRest(u) ==
    /\ SessionsOf(u) # {}
    /\ \A s \in SessionsOf(u) : status[s] = "closed"
    /\ \A w \in writes : w.uid # u

\* C32: once every session of a user has disconnected and every status
\* write for the user has been applied, the persisted status is "offline".
C32_OfflineAfterLastDisconnect ==
    \A u \in UserIds : AtRest(u) => users[u] = "offline"

\* C33: the disconnect of one session of a user does not store "offline"
\* while another session of the user is connected.
C33_OfflineOnlyWithoutSessions ==
    [][\A w \in writes :
          (w.by = "disconnect" /\ w \notin writes'
           /\ \E o \in Sessions : status[o] = "open" /\ userId[o] = w.uid)
          => users'[w.uid] # "offline"]_vars

\* C34: whatever room ids and types a client sends, the members of the
\* personal room of user x are exactly the open sessions authenticated as x.
C34_PersonalRoomOnlyForItsUser ==
    \A s \in Sessions, x \in UserIds :
        PersonalRoom(x) \in rooms[s] <=> (status[s] = "open" /\ userId[s] = x)

\* A session of user a asked to join the room id "user:b" while a session of
\* b is connected, and it is not in b's personal room.
C34_Witness ==
    \E s, o \in Sessions : \E j \in DOMAIN hist[s] :
        /\ status[s] = "open" /\ userId[s] = <<"a">>
        /\ status[o] = "open" /\ userId[o] = <<"b">>
        /\ hist[s][j].ev = "joinRoom" /\ hist[s][j].op = "join"
        /\ hist[s][j].room = <<"server:", "user:", "b">>
        /\ PersonalRoom(<<"b">>) \notin rooms[s]

\* C35: the actor of every newMessage, user:typing and voice:signal event a
\* session has received is the user the originating session authenticated
\* as, whatever sender the payload named.
C35_ActorIsTheAuthenticatedUser ==
    \A s \in Sessions : \A j \in DOMAIN inbox[s] :
        inbox[s][j].ev \in {"newMessage", "user:typing", "voice:signal"} =>
            /\ inbox[s][j].from = userId[sent[inbox[s][j].id].by]
            /\ inbox[s][j].ev = "newMessage" =>
                  inbox[s][j].sender = userId[sent[inbox[s][j].id].by]

\* A session of user a sent a message whose payload named a sender, another
\* user's session received it, and the event names a as its sender.
C35_Witness ==
    \E s \in Sessions : \E j \in DOMAIN inbox[s] :
        /\ inbox[s][j].ev = "newMessage"
        /\ inbox[s][j].content = "forged"
        /\ userId[sent[inbox[s][j].id].by] = <<"a">>
        /\ userId[s] = <<"b">>
        /\ inbox[s][j].sender = <<"a">>

\* C36: the channel list a plain member gets from getServerChannels holds
\* no more channels than the member may see, whether it came from the cache
\* or from the database.
C36_ChannelListFilteredForRequester ==
    \A q \in Requests :
        (pc[q] = "done" /\ req[q].kind = "getServerChannels" /\ req[q].by = "member")
        => req[q].val <= Len(VisibleChannels("member"))

\* C37: getUserById answers with the public projection and getMe with the
\* full profile, whatever the cache holds.
C37_ProfileIndependentOfCache ==
    \A q \in Requests :
        pc[q] = "done" =>
            /\ req[q].kind = "getUserById" => req[q].val = Cardinality(PublicProfile)
            /\ req[q].kind = "getMe" => req[q].val = Cardinality(FullProfile)

\* C38: a getFriends that arrived when no request was in flight, and is
\* answered from the cache before any other request arrives, returns the
\* friends the user has in the database, in particular not a user who
\* blocked them.
C38_FriendsCacheFollowsBlock ==
    [][\A q \in Requests :
          (/\ pc[q] = "get" /\ pc'[q] = "done"
           /\ req[q].kind = "getFriends"
           /\ req[q].alone /\ req[q].seen = started)
          => req'[q].val = Cardinality(friends[req[q].user])]_vars

\* C39: within the first window, with no successful login in between, at
\* most LOGIN_MAX_ATTEMPTS failed credential verifications are performed
\* (each one is followed by its recordAttempt, which the tally counts).
C39_AtMostThresholdFailuresPerWindow ==
    (now < Ticks(LOGIN_WINDOW_SECONDS) /\ tally.cleared = 0)
        => tally.recorded
           + Cardinality({q \in Requests : pc[q] \in {"recget", "recincr", "recset"}})
           <= LOGIN_MAX_ATTEMPTS

\* C40: a request arriving with a token that a logout has already
\* blacklisted is not let through to its handler while the token still
\* verifies, and no request is let through while the blacklist cannot be
\* read.
C40_BlacklistedTokenRejected ==
    [][\A q \in Requests :
          (pc[q] = "auth" /\ pc'[q] \notin {"auth", "failed"}) =>
             /\ redisUp
             /\ ~(req[q].revoked /\ TokenUser(req[q].token) # Null)]_vars
====
